---- MODULE Spec2Model ----
\* A model of the tree-walking evaluator of the Monkey interpreter
\* (src/src/evaluator/eval.rs, src/src/evaluator/environment.rs,
\* src/src/ast/expressions.rs, src/src/ast/statements.rs).
\*
\* eval_program is a state machine: one step per iteration of its statement
\* loop.  The evaluation of one statement is the recursive operator Eval, which
\* threads the heap of environment frames and a log of what was evaluated.
\*
\* Three further state machines share the variables: MacroSpec (define_macros,
\* then expand_macro, src/src/evaluator/macro_expansion.rs), ModifySpec (modify,
\* src/src/ast/modify.rs) and ParseSpec (parse_program, src/src/parser.rs).
EXTENDS Integers, Sequences, FiniteSets, TLC

VARIABLES
    program,    \* the input: the statements handed to eval_program, define_macros
                \* and expand_macro, the node handed to modify, the tokens handed
                \* to the parser
    idx,        \* position of eval_program's loop: next statement to evaluate
    heap,       \* the Environment frames allocated so far; frame 1 is the root
    result,     \* eval_program's local `result` (Option<Box<dyn Object>>); what
                \* expand_macro, modify or parse_program returned
    done,       \* TRUE once eval_program has returned
    log,        \* ghost: what has been evaluated so far, in order
    pc          \* the call the driver is at: "eval" throughout eval_program,
                \* "define_macros", "expand_macro", "modify", "parse_program",
                \* then "expanded", "modified", "parsed"

vars == <<program, idx, heap, result, done, log, pc>>

\* ------------------------------------------------------------------ bounds

\* Integer literals of the generated programs are 0..MaxInt.
MaxInt == 1

\* The generated programs are followed by up to MaxTail marker statements.
MaxTail == 1

\* Arrays of the generated index programs have 0..MaxLen elements.
MaxLen == 2

\* Indexes of the generated index programs are -MaxIndex..MaxIndex.
MaxIndex == 3

\* The programs handed to define_macros alone have up to MaxStatements
\* statements.
MaxStatements == 3

\* The operator chains handed to the parser have 1..MaxOperators infix operators.
MaxOperators == 2

\* the largest integer literal of a parsed source
MaxLiteral == 12

\* The token streams handed to the parser whole have up to MaxTokens tokens.
MaxTokens == 3

\* The inputs handed to the lexer whole have up to MaxCharacters characters.
MaxCharacters == 3

\* Standard input of the REPL holds up to MaxLines lines.
MaxLines == 2

\* The operands of the generated divisions are -MaxOperand..MaxOperand.
MaxOperand == 3

\* The functions applied to too few or too many arguments have up to
\* MaxParameters parameters.
MaxParameters == 2

\* ------------------------------------------------------------------ AST
\* src/src/ast/expressions.rs, src/src/ast/statements.rs

Identifier(n) == [kind |-> "Identifier", value |-> n]
IntegerLiteral(n) == [kind |-> "IntegerLiteral", value |-> n]
BooleanLit(b) == [kind |-> "Boolean", value |-> b]
StringLiteral(s) == [kind |-> "StringLiteral", value |-> s]
PrefixExpression(op, r) == [kind |-> "PrefixExpression", operator |-> op, right |-> r]
InfixExpression(l, op, r) ==
    [kind |-> "InfixExpression", left |-> l, operator |-> op, right |-> r]
BlockStatement(stmts) == [kind |-> "BlockStatement", statements |-> stmts]
\* alternative: Option<BlockStatement>, a sequence of length 0 or 1
IfExpression(c, cons, alt) ==
    [kind |-> "IfExpression", condition |-> c, consequence |-> cons, alternative |-> alt]
FunctionLiteral(params, body) ==
    [kind |-> "FunctionLiteral", parameters |-> params, body |-> body]
CallExpression(f, args) == [kind |-> "CallExpression", function |-> f, arguments |-> args]
ArrayLiteral(elems) == [kind |-> "ArrayLiteral", elements |-> elems]
IndexExpression(l, i) == [kind |-> "IndexExpression", left |-> l, index |-> i]
\* pairs: the (key, value) pairs in the order the HashMap iterates them
HashLiteral(pairs) == [kind |-> "HashLiteral", pairs |-> pairs]
LetStatement(n, v) == [kind |-> "LetStatement", name |-> n, value |-> v]
ReturnStatement(v) == [kind |-> "ReturnStatement", return_value |-> v]
ExpressionStatement(e) == [kind |-> "ExpressionStatement", expression |-> e]
Program(stmts) == [kind |-> "Program", statements |-> stmts]
MacroLiteral(params, body) ==
    [kind |-> "MacroLiteral", parameters |-> params, body |-> body]

\* ------------------------------------------------------------------ objects
\* src/src/evaluator/object.rs

Integer(n) == [type |-> "Integer", value |-> n]
Boolean(b) == [type |-> "Boolean", value |-> b]
Null == [type |-> "Null"]
StringObject(s) == [type |-> "String", value |-> s]
ReturnValue(o) == [type |-> "ReturnValue", value |-> o]
Error(m) == [type |-> "Error", message |-> m]
Function(params, body, env) ==
    [type |-> "Function", parameters |-> params, body |-> body, env |-> env]
Builtin(n) == [type |-> "Builtin", name |-> n]
Array(elems) == [type |-> "Array", elements |-> elems]
Hash(pairs) == [type |-> "Hash", pairs |-> pairs]
\* a quoted AST node, and a macro with its captured frame (object.rs of the
\* repository at the revision of macro_expansion.rs)
Quote(node) == [type |-> "Quote", node |-> node]
Macro(params, body, env) ==
    [type |-> "Macro", parameters |-> params, body |-> body, env |-> env]
HashKey(t, v) == [object_type |-> t, value |-> v]
HashPair(k, v) == [key |-> k, value |-> v]

\* Option::None where the code returns Option<Box<dyn Object>>
None == [type |-> "None"]
\* the evaluation aborted (a Rust panic unwinding every caller)
Panic(m) == [type |-> "Panic", message |-> m]

object_type(o) == o.type

from_native_bool(b) == Boolean(b)

BuiltinNames == {"len", "first", "last", "rest", "push", "puts"}

\* ------------------------------------------------------------------ printing
\* Node::token_literal and Node::string (src/src/ast/expressions.rs,
\* statements.rs, program.rs); a parsed node carries the token it started with

token_literal(node) ==
    CASE node.kind \in {"Identifier", "StringLiteral"} -> node.value
      [] node.kind = "IntegerLiteral" -> ToString(node.value)
      [] node.kind = "Boolean" -> IF node.value THEN "true" ELSE "false"
      [] node.kind \in {"PrefixExpression", "InfixExpression"} -> node.operator
      [] node.kind = "IfExpression" -> "if"
      [] node.kind = "FunctionLiteral" -> "fn"
      [] node.kind = "MacroLiteral" -> "macro"
      [] node.kind = "CallExpression" -> "("
      [] node.kind \in {"ArrayLiteral", "IndexExpression"} -> "["
      [] node.kind \in {"HashLiteral", "BlockStatement"} -> "{"
      [] node.kind = "LetStatement" -> "let"
      [] node.kind = "ReturnStatement" -> "return"
      [] node.kind = "ExpressionStatement" -> ""

RECURSIVE join(_, _)
\* Vec<String>::join
join(strs, sep) ==
    IF strs = <<>> THEN ""
    ELSE IF Len(strs) = 1 THEN strs[1]
    ELSE strs[1] \o sep \o join(Tail(strs), sep)

RECURSIVE concat(_)
\* push_str of every string in turn
concat(strs) == IF strs = <<>> THEN "" ELSE strs[1] \o concat(Tail(strs))

RECURSIVE string(_)
string(node) ==
    LET Each(nodes) == [i \in DOMAIN nodes |-> string(nodes[i])]
    IN CASE node.kind \in {"Identifier", "StringLiteral"} -> node.value
         [] node.kind = "IntegerLiteral" -> ToString(node.value)
         [] node.kind = "Boolean" -> IF node.value THEN "true" ELSE "false"
         [] node.kind = "PrefixExpression" ->
                "(" \o node.operator \o string(node.right) \o ")"
         [] node.kind = "InfixExpression" ->
                "(" \o string(node.left) \o " " \o node.operator \o " "
                    \o string(node.right) \o ")"
         [] node.kind = "IfExpression" ->
                "if " \o string(node.condition) \o " " \o string(node.consequence)
                    \o (IF node.alternative # <<>>
                        THEN "else " \o string(node.alternative[1]) ELSE "")
         [] node.kind = "FunctionLiteral" ->
                "fn(" \o join(node.parameters, ", ") \o ") " \o string(node.body)
         [] node.kind = "MacroLiteral" ->
                "macro(" \o join(node.parameters, ", ") \o ")" \o string(node.body)
         [] node.kind = "CallExpression" ->
                string(node.function) \o "(" \o join(Each(node.arguments), ", ") \o ")"
         [] node.kind = "ArrayLiteral" ->
                "[" \o join(Each(node.elements), ", ") \o "]"
         [] node.kind = "IndexExpression" ->
                "(" \o string(node.left) \o "[" \o string(node.index) \o "])"
         [] node.kind = "HashLiteral" ->
                "{" \o join([i \in DOMAIN node.pairs |->
                                string(node.pairs[i][1]) \o ": "
                                    \o string(node.pairs[i][2])], ", ") \o "}"
         [] node.kind = "LetStatement" ->
                "let " \o node.name \o " = " \o string(node.value) \o ";"
         [] node.kind = "ReturnStatement" ->
                "return " \o string(node.return_value) \o ";"
         [] node.kind = "ExpressionStatement" -> string(node.expression)
         [] node.kind \in {"BlockStatement", "Program"} -> concat(Each(node.statements))

\* ------------------------------------------------------------------ ownership
\* A Function holds an Rc (strong) to its captured frame
\* (object.rs: `pub env: Rc<RefCell<Environment>>`); a frame's `outer` is a Weak
\* (environment.rs).  A frame is freed when its strong count reaches 0: when
\* neither a value held by a running Rust call, nor the store of a live frame,
\* nor a strong cycle through itself holds it.

RECURSIVE Refs(_)
\* the frames an object owns strongly
Refs(o) ==
    CASE o.type \in {"Function", "Macro"} -> {o.env}
      [] o.type = "ReturnValue" -> Refs(o.value)
      [] o.type = "Array" -> UNION {Refs(o.elements[i]) : i \in DOMAIN o.elements}
      [] o.type = "Hash" ->
            UNION {Refs(o.pairs[i].pair.value) : i \in DOMAIN o.pairs}
      [] OTHER -> {}

\* the frames owned by the values stored in frame f
StoreRefs(h, f) == UNION {Refs(h[f].store[n]) : n \in DOMAIN h[f].store}

RECURSIVE Reach(_, _)
\* the frames kept alive by the strong references of the set S
Reach(h, S) ==
    LET T == S \cup UNION {StoreRefs(h, f) : f \in S}
    IN IF T = S THEN S ELSE Reach(h, T)

\* frames on a strong cycle: never freed while the cycle exists
Leaked(h) == {f \in DOMAIN h : f \in Reach(h, StoreRefs(h, f))}

\* Weak::upgrade succeeds on frame f, given the frames `roots` owned by the
\* running Rust calls
Upgrade(h, roots, f) == f \in DOMAIN h /\ f \in Reach(h, roots \cup Leaked(h))

\* ------------------------------------------------------------------ environment
\* src/src/evaluator/environment.rs.  outer = 0 is Weak::new().

EmptyStore == [n \in {} |-> None]

EnvironmentNew == [store |-> EmptyStore, outer |-> 0]

new_enclosed(outer) == [store |-> EmptyStore, outer |-> outer]

RECURSIVE EnvGet(_, _, _, _)
\* Environment::get: the own store first, then the upgraded outer frame
EnvGet(h, roots, f, name) ==
    IF name \in DOMAIN h[f].store
    THEN h[f].store[name]
    ELSE IF Upgrade(h, roots, h[f].outer)
         THEN EnvGet(h, roots, h[f].outer, name)
         ELSE None

\* HashMap::insert on the store of one frame
StoreInsert(store, name, value) ==
    [n \in DOMAIN store \cup {name} |-> IF n = name THEN value ELSE store[n]]

RECURSIVE EnvSet_AssignsOuter(_, _, _, _)
\* a set that assigns to the nearest frame already binding the name
EnvSet_AssignsOuter(h, f, name, value) ==
    IF name \notin DOMAIN h[f].store /\ h[f].outer # 0
          /\ name \in UNION {DOMAIN h[g].store : g \in DOMAIN h}
    THEN EnvSet_AssignsOuter(h, h[f].outer, name, value)
    ELSE [heap |-> [h EXCEPT ![f].store = StoreInsert(h[f].store, name, value)],
          old |-> IF name \in DOMAIN h[f].store THEN h[f].store[name] ELSE None]

\* Environment::set: inserts into the frame's own store and returns the value
\* the name had there before (HashMap::insert's Option)
EnvSet(h, f, name, value) ==
    [heap |-> [h EXCEPT ![f].store = StoreInsert(h[f].store, name, value)],
     old |-> IF name \in DOMAIN h[f].store THEN h[f].store[name] ELSE None]

\* ------------------------------------------------------------------ operators
\* src/src/evaluator/eval.rs: the functions that take evaluated operands

is_error(o) == o.type = "Error"

\* is_truthy with Null not truthy
is_truthy_NullFalse(o) ==
    CASE o.type = "Boolean" -> o.value
      [] o.type = "Null" -> FALSE
      [] OTHER -> TRUE

\* is_truthy: Option<bool>; only Boolean::False is not truthy
is_truthy(o) ==
    CASE o.type = "Boolean" -> o.value
      [] o.type = "Null" -> TRUE
      [] OTHER -> TRUE

eval_bang_operator_expression(right) ==
    IF right = None THEN None
    ELSE IF is_truthy(right) THEN Boolean(FALSE) ELSE Boolean(TRUE)

eval_minus_prefix_operator_expression(right) ==
    IF right = None THEN None
    ELSE IF right.type # "Integer"
         THEN Error("unknown operator: -" \o right.type)
         ELSE Integer(-right.value)

eval_prefix_expression(operator, right) ==
    CASE operator = "!" -> eval_bang_operator_expression(right)
      [] operator = "-" -> eval_minus_prefix_operator_expression(right)
      [] OTHER -> IF right = None THEN None
                  ELSE Error("unknown operator: " \o operator \o right.type)

unknown_operator(lt, operator, rt) ==
    Error("unknown operator: " \o lt \o " " \o operator \o " " \o rt)

\* i64 `/`: truncates toward zero; a zero divisor aborts the evaluation
IntegerDivide(a, b) ==
    IF b = 0 THEN Panic("attempt to divide by zero")
    ELSE LET q == (IF a < 0 THEN -a ELSE a) \div (IF b < 0 THEN -b ELSE b)
         IN Integer(IF (a < 0) = (b < 0) THEN q ELSE -q)

eval_integer_infix_expression(left, operator, right) ==
    CASE operator = "+" -> Integer(left.value + right.value)
      [] operator = "-" -> Integer(left.value - right.value)
      [] operator = "*" -> Integer(left.value * right.value)
      [] operator = "/" -> IntegerDivide(left.value, right.value)
      [] operator = "<" -> from_native_bool(left.value < right.value)
      [] operator = ">" -> from_native_bool(left.value > right.value)
      [] operator = "==" -> from_native_bool(left.value = right.value)
      [] operator = "!=" -> from_native_bool(left.value # right.value)
      [] OTHER -> unknown_operator(left.type, operator, right.type)

eval_boolean_infix_expression(left, operator, right) ==
    CASE operator = "==" -> from_native_bool(left.value = right.value)
      [] operator = "!=" -> from_native_bool(left.value # right.value)
      [] OTHER -> unknown_operator(left.type, operator, right.type)

eval_string_infix_expression(left, operator, right) ==
    CASE operator = "+" -> StringObject(left.value \o right.value)
      [] OTHER -> unknown_operator(left.type, operator, right.type)

\* eval_infix_expression that compares operands that are not both Integer
\* with == and != before it looks at their types
eval_infix_expression_ComparesFirst(left, operator, right) ==
    IF left = None \/ right = None THEN None
    ELSE IF left.type = "Integer" /\ right.type = "Integer"
    THEN eval_integer_infix_expression(left, operator, right)
    ELSE IF operator \in {"==", "!="}
    THEN LET same == /\ left.type = right.type
                     /\ left.type \in {"Boolean", "String"} => left.value = right.value
         IN from_native_bool(same = (operator = "=="))
    ELSE IF left.type = "String" /\ right.type = "String"
    THEN eval_string_infix_expression(left, operator, right)
    ELSE IF left.type # right.type
    THEN Error("type mismatch: " \o left.type \o " " \o operator \o " " \o right.type)
    ELSE unknown_operator(left.type, operator, right.type)

eval_infix_expression(left, operator, right) ==
    IF left = None \/ right = None THEN None
    ELSE IF left.type = "Integer" /\ right.type = "Integer"
    THEN eval_integer_infix_expression(left, operator, right)
    ELSE IF left.type = "Boolean" /\ right.type = "Boolean"
    THEN eval_boolean_infix_expression(left, operator, right)
    ELSE IF left.type = "String" /\ right.type = "String"
    THEN eval_string_infix_expression(left, operator, right)
    ELSE IF left.type # right.type
    THEN Error("type mismatch: " \o left.type \o " " \o operator \o " " \o right.type)
    ELSE unknown_operator(left.type, operator, right.type)

\* hash_key that leaves the object type out of the HashKey
hash_key_NoType(o) ==
    CASE o.type = "Integer" -> HashKey("", o.value)
      [] o.type = "Boolean" -> HashKey("", IF o.value THEN 1 ELSE 0)
      [] o.type = "String" -> HashKey("String", o.value)

\* Hashable::hash_key; the String digest is taken to be injective, and so is
\* the cast of an i64 to u64
hash_key(o) ==
    CASE o.type = "Integer" -> HashKey("Integer", o.value)
      [] o.type = "Boolean" -> HashKey("Boolean", IF o.value THEN 1 ELSE 0)
      [] o.type = "String" -> HashKey("String", o.value)

\* HashKey's derived PartialEq
SameKey(a, b) == a.object_type = b.object_type /\ a.value = b.value

Hashable(o) == o.type \in {"Integer", "Boolean", "String"}

\* HashMap::insert on Hash.pairs: a pair under an equal HashKey is replaced
PairsInsert(pairs, hk, pair) ==
    IF \E i \in DOMAIN pairs : SameKey(pairs[i].hk, hk)
    THEN [i \in DOMAIN pairs |->
            IF SameKey(pairs[i].hk, hk) THEN [hk |-> hk, pair |-> pair] ELSE pairs[i]]
    ELSE Append(pairs, [hk |-> hk, pair |-> pair])

eval_hash_index_expression(hash, index) ==
    IF ~Hashable(index)
    THEN Error("unusable as hash key: " \o index.type)
    ELSE LET hk == hash_key(index)
             hit == {i \in DOMAIN hash.pairs : SameKey(hash.pairs[i].hk, hk)}
         IN IF hit = {} THEN Null
            ELSE hash.pairs[CHOOSE i \in hit : TRUE].pair.value

\* len <= (i as usize), usize being 64 bits wide: a negative i64 casts to a
\* value of at least 2^63, above the length any Vec can have
LenLeAsUsize(len, i) == IF i < 0 THEN TRUE ELSE len <= i

\* Vec's Index: elements[i as usize], which aborts outside the Vec
ElementAt(elements, i) ==
    IF i >= 0 /\ i < Len(elements) THEN elements[i + 1]
    ELSE Panic("index out of bounds")

\* eval_index_expression that takes i = len for an index inside the array
eval_index_expression_OffByOne(left, index) ==
    IF left = None \/ index = None THEN None
    ELSE IF left.type = "Array" /\ index.type = "Integer"
    THEN IF Len(left.elements) < index.value \/ index.value < 0
         THEN Null
         ELSE ElementAt(left.elements, index.value)
    ELSE IF left.type = "Hash"
    THEN eval_hash_index_expression(left, index)
    ELSE Error("index operator not supported: " \o left.type)

eval_index_expression(left, index) ==
    IF left = None \/ index = None THEN None
    ELSE IF left.type = "Array" /\ index.type = "Integer"
    THEN IF LenLeAsUsize(Len(left.elements), index.value) \/ index.value < 0
         THEN Null
         ELSE ElementAt(left.elements, index.value)
    ELSE IF left.type = "Hash"
    THEN eval_hash_index_expression(left, index)
    ELSE Error("index operator not supported: " \o left.type)

\* ------------------------------------------------------------------ builtins
\* src/src/evaluator/object.rs.  Where the source's messages quote a builtin's
\* name in backquotes, the strings below use apostrophes.

wrong_number_of_arguments(n) ==
    Error("wrong number of arguments: got=" \o ToString(n) \o ", want=1")

object_len(objects) ==
    IF Len(objects) # 1 THEN wrong_number_of_arguments(Len(objects))
    ELSE LET first == objects[1]
         IN CASE first.type = "String" -> Integer(Len(first.value))
              [] first.type = "Array" -> Integer(Len(first.elements))
              [] OTHER -> Error("argument to 'len' not supported, got " \o first.type)

array_first(objects) ==
    IF Len(objects) # 1 THEN wrong_number_of_arguments(Len(objects))
    ELSE LET first == objects[1]
         IN IF first.type = "Array"
            THEN IF first.elements = <<>> THEN Null ELSE Head(first.elements)
            ELSE Error("argument to 'first' must be Array, got " \o first.type)

array_last(objects) ==
    IF Len(objects) # 1 THEN wrong_number_of_arguments(Len(objects))
    ELSE LET first == objects[1]
         IN IF first.type = "Array"
            THEN IF first.elements = <<>> THEN Null
                 ELSE first.elements[Len(first.elements)]
            ELSE Error("argument to 'last' must be Array, got " \o first.type)

\* array_rest that skips no element
array_rest_SkipsNone(objects) ==
    IF Len(objects) # 1 THEN wrong_number_of_arguments(Len(objects))
    ELSE LET first == objects[1]
         IN IF first.type = "Array" THEN Array(first.elements)
            ELSE Error("argument to 'last' must be Array, got " \o first.type)

array_rest(objects) ==
    IF Len(objects) # 1 THEN wrong_number_of_arguments(Len(objects))
    ELSE LET first == objects[1]
         IN IF first.type = "Array"
            THEN Array(IF first.elements = <<>> THEN <<>> ELSE Tail(first.elements))
            ELSE Error("argument to 'last' must be Array, got " \o first.type)

array_push(objects) ==
    IF Len(objects) # 2 THEN wrong_number_of_arguments(Len(objects))
    ELSE LET first == objects[1]
         IN IF first.type = "Array"
            THEN Array(Append(first.elements, objects[2]))
            ELSE Error("argument to 'last' must be Array, got " \o first.type)

\* puts prints each argument; the output is not part of the model
puts(objects) == Null

\* (f.func)(&args) for the Builtin registered under that name in BUILTINS
CallBuiltin(name, objects) ==
    CASE name = "len" -> object_len(objects)
      [] name = "first" -> array_first(objects)
      [] name = "last" -> array_last(objects)
      [] name = "rest" -> array_rest(objects)
      [] name = "push" -> array_push(objects)
      [] name = "puts" -> puts(objects)

\* ------------------------------------------------------------------ evaluation
\* Eval(node, env, st, ctx) is eval(node, env) of eval.rs, that is
\* node.eval_to_object(env).
\*   env  the frame the Rc<RefCell<Environment>> argument points to
\*   st   [heap, log]: the frames and the ghost log, threaded through
\*   ctx  [roots, pos, order]: roots are the frames owned by values the running
\*        Rust calls hold (they decide Weak::upgrade); pos is ghost: "stmt" while
\*        the node is a statement of the Program or of a block of an
\*        if-expression that is itself such a statement, "fn" likewise inside the
\*        body of a function being applied, "expr" below any other expression;
\*        order is the order in which a HashMap that modify rebuilds iterates
\* The value is [obj, st]: the object returned and the state afterwards.

RECURSIVE AstEq(_, _)
\* ghost: two AST nodes are the same tree (TLC's = is defined only between
\* values of like shape, so the comparison goes by node kind)
AstEq(a, b) ==
    LET All(x, y) == Len(x) = Len(y) /\ \A i \in DOMAIN x : AstEq(x[i], y[i])
    IN /\ a.kind = b.kind
       /\ CASE a.kind \in {"Identifier", "IntegerLiteral", "Boolean", "StringLiteral"} ->
                    a.value = b.value
            [] a.kind = "PrefixExpression" ->
                    a.operator = b.operator /\ AstEq(a.right, b.right)
            [] a.kind = "InfixExpression" ->
                    /\ a.operator = b.operator
                    /\ AstEq(a.left, b.left) /\ AstEq(a.right, b.right)
            [] a.kind \in {"BlockStatement", "Program"} ->
                    All(a.statements, b.statements)
            [] a.kind = "IfExpression" ->
                    /\ AstEq(a.condition, b.condition)
                    /\ AstEq(a.consequence, b.consequence)
                    /\ All(a.alternative, b.alternative)
            [] a.kind \in {"FunctionLiteral", "MacroLiteral"} ->
                    a.parameters = b.parameters /\ AstEq(a.body, b.body)
            [] a.kind = "CallExpression" ->
                    AstEq(a.function, b.function) /\ All(a.arguments, b.arguments)
            [] a.kind = "ArrayLiteral" -> All(a.elements, b.elements)
            [] a.kind = "IndexExpression" ->
                    AstEq(a.left, b.left) /\ AstEq(a.index, b.index)
            [] a.kind = "HashLiteral" ->
                    /\ Len(a.pairs) = Len(b.pairs)
                    /\ \A i \in DOMAIN a.pairs : All(a.pairs[i], b.pairs[i])
            [] a.kind = "LetStatement" -> a.name = b.name /\ AstEq(a.value, b.value)
            [] a.kind = "ReturnStatement" -> AstEq(a.return_value, b.return_value)
            [] a.kind = "ExpressionStatement" -> AstEq(a.expression, b.expression)

RECURSIVE Same(_, _)
\* ghost: two objects are the same value
Same(a, b) ==
    /\ a.type = b.type
    /\ CASE a.type \in {"Integer", "Boolean", "String"} -> a.value = b.value
         [] a.type \in {"Error", "Panic"} -> a.message = b.message
         [] a.type = "ReturnValue" -> Same(a.value, b.value)
         [] a.type = "Builtin" -> a.name = b.name
         [] a.type \in {"Function", "Macro"} ->
                /\ a.env = b.env /\ a.parameters = b.parameters
                /\ AstEq(a.body, b.body)
         [] a.type = "Quote" -> AstEq(a.node, b.node)
         [] a.type = "Array" ->
                /\ Len(a.elements) = Len(b.elements)
                /\ \A i \in DOMAIN a.elements : Same(a.elements[i], b.elements[i])
         [] a.type = "Hash" ->
                /\ Len(a.pairs) = Len(b.pairs)
                /\ \A i \in DOMAIN a.pairs :
                      /\ Same(a.pairs[i].pair.key, b.pairs[i].pair.key)
                      /\ Same(a.pairs[i].pair.value, b.pairs[i].pair.value)
         [] OTHER -> TRUE

\* ghost: two frames hold the same bindings and the same outer link
SameFrame(x, y) ==
    /\ x.outer = y.outer
    /\ DOMAIN x.store = DOMAIN y.store
    /\ \A n \in DOMAIN x.store : Same(x.store[n], y.store[n])

Ret(o, st) == [obj |-> o, st |-> st]

Halts(r) == r.obj.type = "Panic"

Logged(st, e) == [st EXCEPT !.log = Append(@, e)]

\* ghost: a form with sub-expressions finished; subs are the values of the
\* sub-expressions it evaluated, in order
FormEvent(node, subs, branch, o) ==
    [ev |-> "form", node |-> node, subs |-> subs, branch |-> branch, obj |-> o]

\* the value o of the form `node`, with the form's ghost event logged
Formed(node, st, subs, branch, o) ==
    Ret(o, Logged(st, FormEvent(node, subs, branch, o)))

\* ghost position: "stmt" a statement of the Program or of if-blocks that are
\* themselves such statements, "expr" a sub-expression of a form outside any
\* function body, "fn" anywhere inside a function body
Sub(ctx, held) ==
    [ctx EXCEPT !.roots = @ \cup held, !.pos = IF @ = "fn" THEN "fn" ELSE "expr"]

Holding(ctx, held) == [ctx EXCEPT !.roots = @ \cup held]

RECURSIVE SeqRefs(_)
SeqRefs(objs) == IF objs = <<>> THEN {} ELSE Refs(Head(objs)) \cup SeqRefs(Tail(objs))

RECURSIVE EnvChain(_, _, _)
\* ghost: the stores Environment::get can reach from frame f, nearest first
EnvChain(h, roots, f) ==
    <<h[f].store>> \o
        (IF Upgrade(h, roots, h[f].outer) THEN EnvChain(h, roots, h[f].outer) ELSE <<>>)

RECURSIVE LexicalChain(_, _)
\* ghost: the stores of the frames the outer links lead to from frame f,
\* nearest first, whether freed or not
LexicalChain(h, f) ==
    IF f = 0 THEN <<>> ELSE <<h[f].store>> \o LexicalChain(h, h[f].outer)

RECURSIVE OuterFrames(_, _)
\* the frames the outer links lead to from frame f, whether freed or not
OuterFrames(h, f) ==
    IF f = 0 THEN {} ELSE {f} \cup OuterFrames(h, h[f].outer)

\* extend_function_env: a new frame enclosing func.env, each parameter bound to
\* the argument at its index; args[index] aborts when there is no such argument
extend_function_env(func, args) ==
    IF Len(func.parameters) > Len(args)
    THEN Panic("index out of bounds")
    ELSE [store |-> [n \in {func.parameters[i] : i \in DOMAIN func.parameters} |->
                        args[CHOOSE i \in DOMAIN func.parameters :
                                /\ func.parameters[i] = n
                                /\ \A j \in DOMAIN func.parameters :
                                      func.parameters[j] = n => j <= i]],
          outer |-> func.env]

\* unwrap_return_value: for a ReturnValue the downcast Box<ReturnValue> is what
\* is returned (as a Box<dyn Object>), not its `value` field
unwrap_return_value(object) ==
    IF object.type = "ReturnValue" THEN object ELSE object

RECURSIVE Eval(_, _, _, _)
RECURSIVE modify(_, _, _, _, _)
RECURSIVE modify_slots(_, _, _, _, _, _, _, _)
RECURSIVE modifier(_, _, _, _, _)
RECURSIVE quote(_, _, _, _)
RECURSIVE eval_block_statement(_, _, _, _, _, _)
RECURSIVE eval_expressions(_, _, _, _, _, _, _)
RECURSIVE eval_hash_literal(_, _, _, _, _, _, _)
RECURSIVE apply_function(_, _, _, _)

eval_identifier(identifier, env, st, ctx) ==
    LET got == EnvGet(st.heap, ctx.roots, env, identifier.value)
        o == IF got # None THEN got
             ELSE IF identifier.value \in BuiltinNames THEN Builtin(identifier.value)
             ELSE Error("identifier not found: " \o identifier.value)
    IN Ret(o, Logged(st, [ev |-> "ident", name |-> identifier.value,
                          chain |-> EnvChain(st.heap, ctx.roots, env),
                          lexical |-> LexicalChain(st.heap, env), obj |-> o]))

PrefixExpression_eval(node, env, st, ctx) ==
    LET operated(right) ==
            IF Halts(right) THEN right
            ELSE IF is_error(right.obj)
            THEN Formed(node, right.st, <<right.obj>>, "", right.obj)
            ELSE Formed(node, right.st, <<right.obj>>, "",
                        eval_prefix_expression(node.operator, right.obj))
    IN operated(Eval(node.right, env, st, Sub(ctx, {})))

InfixExpression_eval(node, env, st, ctx) ==
    LET operated(left, right) ==
            IF Halts(right) THEN right
            ELSE IF is_error(right.obj)
            THEN Formed(node, right.st, <<left.obj, right.obj>>, "", right.obj)
            ELSE Formed(node, right.st, <<left.obj, right.obj>>, "",
                        eval_infix_expression(left.obj, node.operator, right.obj))
        continued(left) ==
            IF Halts(left) THEN left
            ELSE IF is_error(left.obj)
            THEN Formed(node, left.st, <<left.obj>>, "", left.obj)
            ELSE operated(left, Eval(node.right, env, left.st, Sub(ctx, Refs(left.obj))))
    IN continued(Eval(node.left, env, st, Sub(ctx, {})))

IfExpression_eval(node, env, st, ctx) ==
    LET Done(condition, r, branch) ==
            IF Halts(r) THEN r
            ELSE Formed(node, r.st, <<condition.obj>>, branch, r.obj)
        branched(condition, held) ==
            IF Halts(condition) THEN condition
            ELSE IF is_error(condition.obj) \/ condition.obj = None
            THEN Done(condition, condition, "")
            ELSE IF is_truthy(condition.obj)
            THEN Done(condition, Eval(node.consequence, env, condition.st, held),
                      "consequence")
            ELSE IF node.alternative # <<>>
            THEN Done(condition, Eval(node.alternative[1], env, condition.st, held),
                      "alternative")
            ELSE Done(condition, Ret(Null, condition.st), "")
        decided(condition) == branched(condition, Holding(ctx, Refs(condition.obj)))
    IN decided(Eval(node.condition, env, st, Sub(ctx, {})))

FunctionLiteral_eval(node, env, st, ctx) ==
    Ret(Function(node.parameters, node.body, env), st)

MacroLiteral_eval(node, env, st, ctx) ==
    Ret(Macro(node.parameters, node.body, env), st)

\* CallExpression::eval_to_object: a callee whose token is quote makes the
\* call the quote special form; any other callee is evaluated and applied
CallExpression_eval(node, env, st, ctx) ==
    LET applied(func, params, r) ==
            IF Halts(r) THEN r
            ELSE Formed(node, r.st, <<func.obj>> \o params.seen, "", r.obj)
        called(func, params) ==
            IF params.halt # None THEN Ret(params.halt, params.st)
            ELSE IF Len(params.objs) = 1 /\ is_error(params.objs[1])
            THEN Formed(node, params.st, <<func.obj>> \o params.seen, "", params.objs[1])
            ELSE applied(func, params,
                         apply_function(func.obj, params.objs, params.st,
                                        Sub(ctx, Refs(func.obj) \cup SeqRefs(params.objs))))
        evaluated(func) ==
            IF Halts(func) THEN func
            ELSE IF is_error(func.obj) \/ func.obj = None
            THEN Formed(node, func.st, <<func.obj>>, "", func.obj)
            ELSE called(func, eval_expressions(node.arguments, 1, <<>>, <<>>, env, func.st,
                                               Sub(ctx, Refs(func.obj))))
    IN IF token_literal(node.function) = "quote"
       THEN IF node.arguments # <<>>
            THEN quote(node.arguments[1], env, st, Sub(ctx, {}))
            ELSE Ret(Error("'quote' needs to be called with one argument"), st)
       ELSE evaluated(Eval(node.function, env, st, Sub(ctx, {})))

ArrayLiteral_eval(node, env, st, ctx) ==
    LET built(elements) ==
            IF elements.halt # None THEN Ret(elements.halt, elements.st)
            ELSE Formed(node, elements.st, elements.seen, "",
                        IF Len(elements.objs) = 1 /\ elements.objs[1].type = "Error"
                        THEN elements.objs[1]
                        ELSE Array(elements.objs))
    IN built(eval_expressions(node.elements, 1, <<>>, <<>>, env, st, Sub(ctx, {})))

IndexExpression_eval(node, env, st, ctx) ==
    LET indexed(left, index) ==
            IF Halts(index) THEN index
            ELSE IF is_error(index.obj)
            THEN Formed(node, index.st, <<left.obj, index.obj>>, "", index.obj)
            ELSE Formed(node, index.st, <<left.obj, index.obj>>, "",
                        eval_index_expression(left.obj, index.obj))
        continued(left) ==
            IF Halts(left) THEN left
            ELSE IF is_error(left.obj)
            THEN Formed(node, left.st, <<left.obj>>, "", left.obj)
            ELSE indexed(left, Eval(node.index, env, left.st, Sub(ctx, Refs(left.obj))))
    IN continued(Eval(node.left, env, st, Sub(ctx, {})))

\* eval_expressions that collects an Error like any other value
eval_expressions_NoStop(exps, i, results, seen, env, st, ctx) ==
    IF i > Len(exps)
    THEN [objs |-> results, seen |-> seen, st |-> st, halt |-> None]
    ELSE LET pushed(object) ==
                IF Halts(object)
                THEN [objs |-> <<>>, seen |-> seen, st |-> object.st, halt |-> object.obj]
                ELSE eval_expressions(exps, i + 1,
                        IF object.obj # None THEN Append(results, object.obj) ELSE results,
                        Append(seen, object.obj), env, object.st, ctx)
         IN pushed(Eval(exps[i], env, st, Sub(ctx, SeqRefs(results))))

\* eval_expressions, at element i of exps with `results` collected so far.
\* objs is the Vec returned, seen (ghost) every value evaluated, halt the abort
eval_expressions(exps, i, results, seen, env, st, ctx) ==
    IF i > Len(exps)
    THEN [objs |-> results, seen |-> seen, st |-> st, halt |-> None]
    ELSE LET pushed(object) ==
                IF Halts(object)
                THEN [objs |-> <<>>, seen |-> seen, st |-> object.st, halt |-> object.obj]
                ELSE IF is_error(object.obj)
                THEN [objs |-> <<object.obj>>, seen |-> Append(seen, object.obj),
                      st |-> object.st, halt |-> None]
                ELSE eval_expressions(exps, i + 1,
                        IF object.obj # None THEN Append(results, object.obj) ELSE results,
                        Append(seen, object.obj), env, object.st, ctx)
         IN pushed(Eval(exps[i], env, st, Sub(ctx, SeqRefs(results))))

\* eval_hash_literal, at pair i of node.pairs with `pairs` inserted so far
eval_hash_literal(node, i, pairs, seen, env, st, ctx) ==
    IF i > Len(node.pairs)
    THEN Formed(node, st, seen, "", Hash(pairs))
    ELSE LET held == UNION {Refs(pairs[j].pair.value) : j \in DOMAIN pairs}
             inserted(evaluated_key, evaluated_value, seen2) ==
                IF Halts(evaluated_value) THEN evaluated_value
                ELSE IF is_error(evaluated_value.obj)
                THEN Formed(node, evaluated_value.st, seen2, "", evaluated_value.obj)
                ELSE IF evaluated_key.obj = None \/ evaluated_value.obj = None
                THEN Formed(node, evaluated_value.st, seen2, "", None)
                ELSE IF ~Hashable(evaluated_key.obj)
                THEN Formed(node, evaluated_value.st, seen2, "",
                            Error("unusable as hash key: " \o evaluated_key.obj.type))
                ELSE eval_hash_literal(node, i + 1,
                        PairsInsert(pairs, hash_key(evaluated_key.obj),
                                    HashPair(evaluated_key.obj, evaluated_value.obj)),
                        seen2, env, evaluated_value.st, ctx)
             valued(evaluated_key, evaluated_value) ==
                inserted(evaluated_key, evaluated_value,
                         Append(Append(seen, evaluated_key.obj), evaluated_value.obj))
             keyed(evaluated_key) ==
                IF Halts(evaluated_key) THEN evaluated_key
                ELSE IF is_error(evaluated_key.obj)
                THEN Formed(node, evaluated_key.st, Append(seen, evaluated_key.obj), "",
                            evaluated_key.obj)
                ELSE valued(evaluated_key,
                            Eval(node.pairs[i][2], env, evaluated_key.st,
                                 Sub(ctx, held \cup Refs(evaluated_key.obj))))
         IN keyed(Eval(node.pairs[i][1], env, st, Sub(ctx, held)))

\* frames 1..Len(before) are the same in both heaps
SameFrames(before, after) == \A f \in DOMAIN before : SameFrame(after[f], before[f])

\* apply_function.  ghost "apply": whether every frame the outer links of the
\* function's captured frame lead to is still alive when it is applied; ghost
\* "applied": the call returned obj, and whether the frames that existed before
\* the call are as they were
apply_function(func, args, st, ctx) ==
    CASE func.type = "Function" ->
            LET frame == extend_function_env(func, args)
                returned(e, object, o) ==
                    Ret(o, Logged(object.st,
                                  [ev |-> "applied", env |-> e,
                                   kept |-> SameFrames(st.heap, object.st.heap),
                                   body |-> object.obj, obj |-> o]))
                unwrapped(e, object) ==
                    IF Halts(object) \/ object.obj = None THEN object
                    ELSE returned(e, object, unwrap_return_value(object.obj))
                entered(h, e, roots) ==
                    unwrapped(e, Eval(func.body, e,
                                      Logged([st EXCEPT !.heap = h],
                                             [ev |-> "apply", env |-> e,
                                              alive |-> \A f \in OuterFrames(h, func.env) :
                                                           Upgrade(h, roots, f)]),
                                      [ctx EXCEPT !.roots = roots, !.pos = "fn"]))
                extended(h) == entered(h, Len(h), ctx.roots \cup {Len(h)})
            IN IF "type" \in DOMAIN frame THEN Ret(frame, st)
               ELSE extended(Append(st.heap, frame))
      [] func.type = "Builtin" -> Ret(CallBuiltin(func.name, args), st)
      [] OTHER -> Ret(Error("not a function: " \o func.type), st)

\* heap after differs from `before` at most in the binding of name in frame f
OnlyBinding(before, after, f, name) ==
    /\ DOMAIN after = DOMAIN before
    /\ \A g \in DOMAIN before :
          /\ after[g].outer = before[g].outer
          /\ DOMAIN after[g].store \ (IF g = f THEN {name} ELSE {})
                = DOMAIN before[g].store \ (IF g = f THEN {name} ELSE {})
          /\ \A n \in DOMAIN before[g].store :
                (g # f \/ n # name) => Same(after[g].store[n], before[g].store[n])

\* LetStatement::eval_to_object without the is_error test
LetStatement_eval_BindsError(node, env, st, ctx) ==
    LET bound(value, set) ==
            Ret(IF is_error(value.obj) THEN value.obj ELSE Null,
                Logged([value.st EXCEPT !.heap = set.heap],
                       FormEvent(node, <<value.obj>>, "", value.obj)))
        evaluated(value) ==
            IF Halts(value) THEN value
            ELSE IF value.obj = None
            THEN Formed(node, value.st, <<value.obj>>, "", value.obj)
            ELSE bound(value, EnvSet(value.st.heap, env, node.name, value.obj))
    IN evaluated(Eval(node.value, env, st, Sub(ctx, {})))

\* LetStatement::eval_to_object.  ghost "let": the value, what the name is
\* bound to in the frame afterwards (None: unbound), whether it was bound there
\* before, whether nothing else changed, and the statement's result
LetStatement_eval(node, env, st, ctx) ==
    LET bound(value, set, o) ==
            Ret(o, Logged([value.st EXCEPT !.heap = set.heap],
                          [ev |-> "let", name |-> node.name, env |-> env,
                           value |-> value.obj,
                           rebound |-> node.name \in DOMAIN value.st.heap[env].store,
                           bound |-> IF node.name \in DOMAIN set.heap[env].store
                                     THEN set.heap[env].store[node.name] ELSE None,
                           only |-> OnlyBinding(value.st.heap, set.heap, env, node.name),
                           obj |-> o]))
        assigned(value, set) == bound(value, set, IF set.old # None THEN set.old ELSE Null)
        evaluated(value) ==
            IF Halts(value) THEN value
            ELSE IF is_error(value.obj) \/ value.obj = None
            THEN Formed(node, value.st, <<value.obj>>, "", value.obj)
            ELSE assigned(value, EnvSet(value.st.heap, env, node.name, value.obj))
    IN evaluated(Eval(node.value, env, st, Sub(ctx, {})))

\* ReturnStatement::eval_to_object.  ghost "return": the statement executed
ReturnStatement_eval(node, env, st, ctx) ==
    LET returned(value) ==
            IF Halts(value) THEN value
            ELSE IF is_error(value.obj) \/ value.obj = None
            THEN Formed(node, value.st, <<value.obj>>, "", value.obj)
            ELSE Ret(ReturnValue(value.obj),
                     Logged(value.st, [ev |-> "return", pos |-> ctx.pos,
                                       obj |-> ReturnValue(value.obj)]))
    IN returned(Eval(node.return_value, env, st, Sub(ctx, {})))

\* eval_block_statement that stops on an Error only
eval_block_statement_KeepsGoing(block_statement, i, last, env, st, ctx) ==
    IF i > Len(block_statement.statements)
    THEN Ret(last, st)
    ELSE LET next(r) ==
                IF Halts(r) THEN r
                ELSE IF r.obj.type = "Error"
                THEN r
                ELSE eval_block_statement(block_statement, i + 1, r.obj, env, r.st, ctx)
         IN next(Eval(block_statement.statements[i], env,
                      Logged(st, [ev |-> "stmt", pos |-> ctx.pos]),
                      Holding(ctx, Refs(last))))

\* eval_block_statement, at statement i with the result `last` of the one before.
\* ghost "stmt": a statement of a block or of the Program starts
eval_block_statement(block_statement, i, last, env, st, ctx) ==
    IF i > Len(block_statement.statements)
    THEN Ret(last, st)
    ELSE LET next(r) ==
                IF Halts(r) THEN r
                ELSE IF r.obj.type = "ReturnValue" \/ r.obj.type = "Error"
                THEN r
                ELSE eval_block_statement(block_statement, i + 1, r.obj, env, r.st, ctx)
         IN next(Eval(block_statement.statements[i], env,
                      Logged(st, [ev |-> "stmt", pos |-> ctx.pos]),
                      Holding(ctx, Refs(last))))

Eval(node, env, st, ctx) ==
    CASE node.kind = "Identifier" -> eval_identifier(node, env, st, ctx)
      [] node.kind = "IntegerLiteral" -> Ret(Integer(node.value), st)
      [] node.kind = "Boolean" -> Ret(Boolean(node.value), st)
      [] node.kind = "StringLiteral" -> Ret(StringObject(node.value), st)
      [] node.kind = "PrefixExpression" -> PrefixExpression_eval(node, env, st, ctx)
      [] node.kind = "InfixExpression" -> InfixExpression_eval(node, env, st, ctx)
      [] node.kind = "IfExpression" -> IfExpression_eval(node, env, st, ctx)
      [] node.kind = "FunctionLiteral" -> FunctionLiteral_eval(node, env, st, ctx)
      [] node.kind = "MacroLiteral" -> MacroLiteral_eval(node, env, st, ctx)
      [] node.kind = "CallExpression" -> CallExpression_eval(node, env, st, ctx)
      [] node.kind = "ArrayLiteral" -> ArrayLiteral_eval(node, env, st, ctx)
      [] node.kind = "IndexExpression" -> IndexExpression_eval(node, env, st, ctx)
      [] node.kind = "HashLiteral" ->
            eval_hash_literal(node, 1, <<>>, <<>>, env, st, Sub(ctx, {}))
      [] node.kind = "LetStatement" -> LetStatement_eval(node, env, st, ctx)
      [] node.kind = "ReturnStatement" -> ReturnStatement_eval(node, env, st, ctx)
      [] node.kind = "ExpressionStatement" -> Eval(node.expression, env, st, ctx)
      [] node.kind = "BlockStatement" ->
            eval_block_statement(node, 1, None, env, st, ctx)

\* ------------------------------------------------------------------ modify
\* src/src/ast/modify.rs

\* what modify does with the node returned for a child slot:
\*   "statement"   assigned through node_to_statement_helper
\*   "expression"  assigned through node_to_expression_helper
\*   "block"       downcast to BlockStatement, unwrapped and assigned
\*   "identifier"  downcast to Identifier, unwrapped and assigned
\*   "consequence" downcast to BlockStatement, unwrapped and dropped
\*   "dropped"     dropped
\* the helpers and the unwraps abort on a node of another kind
Accepts(slot, node) ==
    CASE slot = "statement" ->
            node.kind \in {"LetStatement", "ReturnStatement", "ExpressionStatement",
                           "BlockStatement"}
      [] slot = "expression" ->
            node.kind \in {"Identifier", "IntegerLiteral", "Boolean", "IfExpression",
                           "FunctionLiteral", "CallExpression", "InfixExpression",
                           "PrefixExpression", "StringLiteral", "ArrayLiteral",
                           "HashLiteral", "MacroLiteral", "IndexExpression"}
      [] slot \in {"block", "consequence"} -> node.kind = "BlockStatement"
      [] slot = "identifier" -> node.kind = "Identifier"
      [] slot = "dropped" -> TRUE

\* the child slots of a node in the order modify visits them
Children(node) ==
    CASE node.kind \in {"Program", "BlockStatement"} -> node.statements
      [] node.kind = "ExpressionStatement" -> <<node.expression>>
      [] node.kind = "ReturnStatement" -> <<node.return_value>>
      [] node.kind = "LetStatement" -> <<node.value>>
      [] node.kind = "InfixExpression" -> <<node.left, node.right>>
      [] node.kind = "PrefixExpression" -> <<node.right>>
      [] node.kind = "IndexExpression" -> <<node.left, node.index>>
      [] node.kind = "IfExpression" ->
            <<node.condition, node.consequence>> \o node.alternative
      [] node.kind = "FunctionLiteral" ->
            [i \in DOMAIN node.parameters |-> Identifier(node.parameters[i])]
                \o <<node.body>>
      [] node.kind = "ArrayLiteral" -> node.elements
      [] node.kind = "HashLiteral" ->
            [i \in 1..(2 * Len(node.pairs)) |-> node.pairs[(i + 1) \div 2][2 - (i % 2)]]
      [] OTHER -> <<>>

Slots(node) ==
    CASE node.kind \in {"Program", "BlockStatement"} ->
            [i \in DOMAIN node.statements |-> "statement"]
      [] node.kind \in {"ExpressionStatement", "ReturnStatement", "LetStatement",
                        "PrefixExpression"} -> <<"expression">>
      [] node.kind \in {"InfixExpression", "IndexExpression"} ->
            <<"expression", "expression">>
      [] node.kind = "IfExpression" ->
            <<"expression", "consequence">> \o [i \in DOMAIN node.alternative |-> "block"]
      [] node.kind = "FunctionLiteral" ->
            [i \in DOMAIN node.parameters |-> "identifier"] \o <<"block">>
      [] node.kind = "ArrayLiteral" -> [i \in DOMAIN node.elements |-> "dropped"]
      [] node.kind = "HashLiteral" -> [i \in 1..(2 * Len(node.pairs)) |-> "dropped"]
      [] OTHER -> <<>>

\* the node with its child slots holding c
Rebuilt(node, c) ==
    CASE node.kind \in {"Program", "BlockStatement"} -> [node EXCEPT !.statements = c]
      [] node.kind = "ExpressionStatement" -> [node EXCEPT !.expression = c[1]]
      [] node.kind = "ReturnStatement" -> [node EXCEPT !.return_value = c[1]]
      [] node.kind = "LetStatement" -> [node EXCEPT !.value = c[1]]
      [] node.kind = "InfixExpression" -> [node EXCEPT !.left = c[1], !.right = c[2]]
      [] node.kind = "PrefixExpression" -> [node EXCEPT !.right = c[1]]
      [] node.kind = "IndexExpression" -> [node EXCEPT !.left = c[1], !.index = c[2]]
      [] node.kind = "IfExpression" ->
            [node EXCEPT !.condition = c[1], !.consequence = c[2],
                         !.alternative = SubSeq(c, 3, Len(c))]
      [] node.kind = "FunctionLiteral" ->
            [node EXCEPT !.parameters = [i \in DOMAIN node.parameters |-> c[i].value],
                         !.body = c[Len(c)]]
      [] node.kind = "ArrayLiteral" -> [node EXCEPT !.elements = c]
      [] node.kind = "HashLiteral" ->
            [node EXCEPT !.pairs = [i \in DOMAIN node.pairs |-> <<c[2 * i - 1], c[2 * i]>>]]
      [] OTHER -> node

\* the loop over the child slots, at slot i with the slots before it holding
\* `out`: each child is modified in place; where the slot is assigned it then
\* holds the node modify returned, elsewhere the child as modified in place
modify_slots(children, slots, i, out, m, env, st, ctx) ==
    IF i > Len(children)
    THEN [nodes |-> out, st |-> st, halt |-> None]
    ELSE LET assigned(r) ==
                IF r.halt # None
                THEN [nodes |-> out, st |-> r.st, halt |-> r.halt]
                ELSE IF ~Accepts(slots[i], r.node)
                THEN [nodes |-> out, st |-> r.st, halt |-> Panic("unwrap on a None value")]
                ELSE modify_slots(children, slots, i + 1,
                        Append(out, IF slots[i] \in {"consequence", "dropped"}
                                    THEN r.inplace ELSE r.node),
                        m, env, r.st, ctx)
         IN assigned(modify(children[i], m, env, st, ctx))

\* the orders in which a HashMap built by inserting the pairs of another may
\* iterate them, relative to the map it was built from (the order follows the
\* hashes of the key addresses under the map's own RandomState)
HashOrders == {"kept", "reversed"}

\* hash_literal.pairs = new_pairs: the pairs in the order the new map iterates
Rehashed(node, order) ==
    IF node.kind = "HashLiteral" /\ order = "reversed"
    THEN [node EXCEPT !.pairs = [i \in DOMAIN @ |-> @[Len(@) + 1 - i]]]
    ELSE node

\* modify(node, modifier): node is what is returned, inplace what the caller's
\* node has become
modify(node, m, env, st, ctx) ==
    LET returned(inplace, f) ==
            [node |-> f.node, inplace |-> inplace, st |-> f.st, halt |-> f.halt]
        modified(inplace, r) == returned(inplace, modifier(m, inplace, env, r.st, ctx))
        visited(r) ==
            IF r.halt # None
            THEN [node |-> node, inplace |-> node, st |-> r.st, halt |-> r.halt]
            ELSE modified(Rehashed(Rebuilt(node, r.nodes), ctx.order), r)
    IN visited(modify_slots(Children(node), Slots(node), 1, <<>>, m, env, st, ctx))

\* ------------------------------------------------------------------ quote
\* src/src/quote.rs

is_unquote_call(node) ==
    node.kind = "CallExpression" /\ string(node.function) = "unquote"

convert_object_to_ast_node(object) ==
    CASE object.type = "Integer" -> IntegerLiteral(object.value)
      [] object.type = "Boolean" -> BooleanLit(object.value)
      [] object.type = "Quote" -> object.node
      [] OTHER -> Panic("other object types are not supported")

\* the modifier of eval_unquote_calls
unquote_modifier(node, env, st, ctx) ==
    IF ~is_unquote_call(node) \/ Len(node.arguments) # 1
    THEN [node |-> node, st |-> st, halt |-> None]
    ELSE LET converted(r, new_node) ==
                IF Halts(r) THEN [node |-> node, st |-> r.st, halt |-> r.obj]
                ELSE IF r.obj.type \notin {"Integer", "Boolean", "Quote"}
                THEN [node |-> node, st |-> r.st, halt |-> new_node]
                ELSE [node |-> new_node,
                      st |-> Logged(r.st, [ev |-> "unquote", call |-> node,
                                           from |-> Len(st.log), obj |-> r.obj,
                                           node |-> new_node]),
                      halt |-> None]
             unquoted(r) == converted(r, convert_object_to_ast_node(r.obj))
         IN unquoted(Eval(node.arguments[1], env, st, ctx))

eval_unquote_calls(node, env, st, ctx) == modify(node, "unquote", env, st, ctx)

quote(node, env, st, ctx) ==
    LET quoted(r) ==
            IF r.halt # None THEN Ret(r.halt, r.st)
            ELSE Ret(Quote(r.node),
                     Logged(r.st, [ev |-> "quote", node |-> node, from |-> Len(st.log),
                                   before |-> st.heap, after |-> r.st.heap,
                                   obj |-> Quote(r.node)]))
    IN quoted(eval_unquote_calls(node, env, st, ctx))

\* ------------------------------------------------------------------ macros
\* src/src/evaluator/macro_expansion.rs

is_macro_definiation(statement) ==
    statement.kind = "LetStatement" /\ statement.value.kind = "MacroLiteral"

\* Some(macro) when the callee is an Identifier that the environment binds to
\* a Macro
is_macro_call(call_expression, h, roots, env) ==
    IF call_expression.function.kind = "Identifier"
    THEN LET obj == EnvGet(h, roots, env, string(call_expression.function))
         IN IF obj.type = "Macro" THEN obj ELSE None
    ELSE None

\* the arguments quoted last to first
quote_args_Reversed(call_expression) ==
    [i \in DOMAIN call_expression.arguments |->
        Quote(call_expression.arguments[Len(call_expression.arguments) + 1 - i])]

quote_args(call_expression) ==
    [i \in DOMAIN call_expression.arguments |-> Quote(call_expression.arguments[i])]

\* a new frame enclosing the macro's frame, with parameter i set to argument i
\* for each argument in turn; parameters[i] aborts when there is no such
\* parameter
extend_macro_env(macro_object, args) ==
    IF Len(args) > Len(macro_object.parameters)
    THEN Panic("index out of bounds")
    ELSE [store |-> [n \in {macro_object.parameters[i] : i \in DOMAIN args} |->
                        args[CHOOSE i \in DOMAIN args :
                                /\ macro_object.parameters[i] = n
                                /\ \A j \in DOMAIN args :
                                      macro_object.parameters[j] = n => j <= i]],
          outer |-> macro_object.env]

\* the modifier of expand_macro
expand_modifier(node, env, st, ctx) ==
    LET macro_object == IF node.kind = "CallExpression"
                        THEN is_macro_call(node, st.heap, ctx.roots, env)
                        ELSE None
        eval_env == extend_macro_env(macro_object, quote_args(node))
        h == Append(st.heap, eval_env)
        replaced(r, new_node) ==
            IF Halts(r) THEN [node |-> node, st |-> r.st, halt |-> r.obj]
            ELSE [node |-> new_node,
                  st |-> Logged(r.st, [ev |-> "expand", call |-> node,
                                       macro |-> macro_object, frame |-> h[Len(h)],
                                       obj |-> r.obj, node |-> new_node]),
                  halt |-> None]
        evaluated(r) == replaced(r, IF r.obj.type = "Quote" THEN r.obj.node ELSE node)
    IN IF macro_object.type # "Macro" THEN [node |-> node, st |-> st, halt |-> None]
       ELSE IF Len(node.arguments) > Len(macro_object.parameters)
       THEN [node |-> node, st |-> st, halt |-> eval_env]
       ELSE evaluated(Eval(macro_object.body, Len(h), [st EXCEPT !.heap = h],
                           [ctx EXCEPT !.roots = @ \cup {Len(h)} \cup Refs(macro_object),
                                       !.pos = "fn"]))

\* tests/ast.rs: the modifier of test_modify
turn_one_into_two(node) ==
    IF node.kind = "IntegerLiteral" /\ node.value = 1
    THEN [node EXCEPT !.value = 2]
    ELSE node

\* the closure handed to modify
modifier(m, node, env, st, ctx) ==
    CASE m = "unquote" -> unquote_modifier(node, env, st, ctx)
      [] m = "expand_macro" -> expand_modifier(node, env, st, ctx)
      [] m = "turn_one_into_two" ->
            [node |-> turn_one_into_two(node), st |-> st, halt |-> None]

\* Vec::remove
VecRemove(v, index) == SubSeq(v, 1, index - 1) \o SubSeq(v, index + 1, Len(v))

RECURSIVE macro_indices(_, _)
\* the indices define_macros pushes from statement i on, in order
macro_indices(statements, i) ==
    IF i > Len(statements) THEN <<>>
    ELSE IF is_macro_definiation(statements[i])
    THEN <<i>> \o macro_indices(statements, i + 1)
    ELSE macro_indices(statements, i + 1)

\* add_macro: the MacroLiteral evaluated in env is set under the let's name
add_macro(statement, h, env) ==
    EnvSet(h, env, statement.name,
           Macro(statement.value.parameters, statement.value.body, env)).heap

RECURSIVE add_macros(_, _, _, _)
\* the first loop of define_macros, at element k of indices
add_macros(statements, indices, k, h) ==
    IF k > Len(indices) THEN h
    ELSE add_macros(statements, indices, k + 1, add_macro(statements[indices[k]], h, 1))

RECURSIVE remove_forward(_, _)
\* a removal loop that walks the indices first to last
remove_forward(statements, indices) ==
    IF indices = <<>> \/ Head(indices) > Len(statements) THEN statements
    ELSE remove_forward(VecRemove(statements, Head(indices)), Tail(indices))

RECURSIVE remove_reversed(_, _)
\* the second loop of define_macros: macro_indices.iter().rev()
remove_reversed(statements, indices) ==
    IF indices = <<>> THEN statements
    ELSE remove_reversed(VecRemove(statements, indices[Len(indices)]),
                         SubSeq(indices, 1, Len(indices) - 1))

\* define_macros(program, env) with env the root frame of h
define_macros(statements, h) ==
    LET indices == macro_indices(statements, 1)
    IN [statements |-> remove_reversed(statements, indices),
        heap |-> add_macros(statements, indices, 1, h),
        indices |-> indices]

\* expand_macro(program, env) with env the root frame of st.heap
expand_macro(statements, st, ctx) ==
    modify(Program(statements), "expand_macro", 1, st, ctx)

\* ------------------------------------------------------------------ lexer
\* src/src/lexer.rs.  The input is a String: a sequence of characters, each
\* encoded in UTF-8 as one byte (ASCII) or more.  A character is a string;
\* position and read_position count from 0 as in the source, and
\* current_character is <<>> for None and <<c>> for Some(c).

Token(token_type, literal) == [token_type |-> token_type, literal |-> literal]

\* a character outside ASCII, two bytes long in UTF-8
NonAscii == "U+00E9"

\* char::len_utf8
len_utf8(character) == IF character = NonAscii THEN 2 ELSE 1

\* str::chars of an ASCII string
Chars(s) == [i \in 1..Len(s) |-> SubSeq(s, i, i)]

AsciiAlphabetic ==
    {Chars("abcdefghijklmnopqrstuvwxyzABCDEFGHIJKLMNOPQRSTUVWXYZ")[i] : i \in 1..52}

AsciiDigit == {Chars("0123456789")[i] : i \in 1..10}

is_letter(character) == character \in AsciiAlphabetic \/ character = "_"

is_whitespace(character) == character \in {" ", "\t", "\n", "\r"}

\* Iterator::nth on chars(): the character number n, from 0
CharsNth(input, n) == IF n + 1 \in DOMAIN input THEN <<input[n + 1]>> ELSE <<>>

RECURSIVE ByteOffset(_, _)
\* the byte at which the character number n of the input starts
ByteOffset(input, n) ==
    IF n = 0 THEN 0 ELSE ByteOffset(input, n - 1) + len_utf8(input[n])

\* str::is_char_boundary
is_char_boundary(input, index) ==
    \E n \in 0..Len(input) : ByteOffset(input, n) = index

\* the index expression input[start..end] of a str, by bytes: it panics when
\* an end of the range is not on a character boundary of the input
ByteSlice(input, start, end) ==
    IF ~is_char_boundary(input, start) \/ ~is_char_boundary(input, end)
    THEN [panic |-> TRUE, message |-> "byte index is not a char boundary"]
    ELSE [panic |-> FALSE,
          string |-> concat(SelectSeq([n \in 1..Len(input) |->
                                IF /\ start <= ByteOffset(input, n - 1)
                                   /\ ByteOffset(input, n - 1) < end
                                THEN input[n] ELSE ""], LAMBDA c : c # ""))]

read_character(lexer) ==
    [lexer EXCEPT !.current_character = CharsNth(lexer.input, lexer.read_position),
                  !.position = lexer.read_position,
                  !.read_position = lexer.read_position + 1]

LexerNew(input) ==
    read_character([input |-> input, position |-> 0, read_position |-> 0,
                    current_character |-> <<>>])

\* unwrap_or_default of a char is the character number 0
peek_character(lexer) ==
    IF CharsNth(lexer.input, lexer.read_position) = <<>> THEN "\\0"
    ELSE CharsNth(lexer.input, lexer.read_position)[1]

RECURSIVE skip_whitespace(_)
skip_whitespace(lexer) ==
    IF lexer.current_character # <<>> /\ is_whitespace(lexer.current_character[1])
    THEN skip_whitespace(read_character(lexer))
    ELSE lexer

RECURSIVE ReadWhile(_, _)
\* the while loop of read_identifier and of read_number
ReadWhile(lexer, accepted) ==
    IF lexer.current_character # <<>> /\ lexer.current_character[1] \in accepted
    THEN ReadWhile(read_character(lexer), accepted)
    ELSE lexer

\* the literal read from the start position, and the lexer left after it
Read(lexer, read) ==
    LET sliced(slice) ==
            IF slice.panic THEN slice
            ELSE [panic |-> FALSE, string |-> slice.string, lexer |-> read]
    IN sliced(ByteSlice(lexer.input, lexer.position, read.position))

read_identifier(lexer) == Read(lexer, ReadWhile(lexer, AsciiAlphabetic \cup {"_"}))

read_number(lexer) == Read(lexer, ReadWhile(lexer, AsciiDigit))

\* token::lookup_identifier
lookup_identifier(identifier) ==
    CASE identifier = "fn" -> "Function"
      [] identifier = "let" -> "Let"
      [] identifier = "true" -> "True"
      [] identifier = "false" -> "False"
      [] identifier = "if" -> "If"
      [] identifier = "else" -> "Else"
      [] identifier = "return" -> "Return"
      [] OTHER -> "Ident"

SingleCharacterTokens ==
    [c \in {";", "(", ")", ",", "+", "-", "{", "}", "/", "*", "<", ">"} |->
        CASE c = ";" -> "Semicolon" [] c = "(" -> "LeftParen" [] c = ")" -> "RightParen"
          [] c = "," -> "Comma" [] c = "+" -> "Plus" [] c = "-" -> "Minus"
          [] c = "{" -> "LeftBrace" [] c = "}" -> "RightBrace" [] c = "/" -> "Slash"
          [] c = "*" -> "Asterisk" [] c = "<" -> "LessThan" [] c = ">" -> "GreaterThan"]

\* Lexer::next_token: the token and the lexer after the call, or the panic
next_token(lexer) ==
    LET skipped == skip_whitespace(lexer)
        Returned(token, after) == [panic |-> FALSE, token |-> token, lexer |-> after]
        Identified(identifier) ==
            IF identifier.panic THEN identifier
            ELSE Returned(Token(lookup_identifier(identifier.string), identifier.string),
                          identifier.lexer)
        Numbered(number) ==
            IF number.panic THEN number
            ELSE Returned(Token("Int", number.string), number.lexer)
        Paired(current, single, double) ==
            IF peek_character(skipped) = "="
            THEN Returned(Token(double, current \o "="),
                          read_character(read_character(skipped)))
            ELSE Returned(Token(single, current),
                          read_character(skipped))
        Matched(current) ==
            CASE current = "=" -> Paired(current, "Assign", "Equal")
              [] current = "!" -> Paired(current, "Bang", "NotEqual")
              [] current \in DOMAIN SingleCharacterTokens ->
                    Returned([token_type |-> SingleCharacterTokens[current],
                              literal |-> current], read_character(skipped))
              [] is_letter(current) -> Identified(read_identifier(skipped))
              [] current \in AsciiDigit -> Numbered(read_number(skipped))
              [] OTHER -> Returned(Token("Illegal", current),
                                   read_character(skipped))
    IN IF skipped.current_character = <<>>
       THEN Returned(Token("EOF", ""), read_character(skipped))
       ELSE Matched(skipped.current_character[1])

RECURSIVE Lex(_, _)
\* the tokens the parser draws from the lexer, up to EOF
Lex(lexer, tokens) ==
    LET drawn(next) ==
            IF next.panic THEN [panic |-> TRUE, tokens |-> tokens]
            ELSE IF next.token.token_type = "EOF" THEN [panic |-> FALSE, tokens |-> tokens]
            ELSE Lex(next.lexer, Append(tokens, next.token))
    IN drawn(next_token(lexer))

\* ------------------------------------------------------------------ parser
\* src/src/parser.rs.  The parser reads the lexer's tokens one ahead: with the
\* tokens as a sequence, current_token is tokens[p] and peek_token is
\* tokens[p + 1], next_token is p + 1, and past the end the lexer keeps
\* answering EOF.  A parse function yields [ok, node, p, err]: Ok(node) or
\* Err(err), and the position it leaves the parser at.

TokenAt(tokens, p) == IF p \in DOMAIN tokens THEN tokens[p] ELSE Token("EOF", "")

POk(node, p) == [ok |-> TRUE, node |-> node, p |-> p, err |-> ""]
PErr(err, p) == [ok |-> FALSE, node |-> None, p |-> p, err |-> err]

ExpressionPrecedence ==
    [Lowest |-> 1, Equals |-> 2, LessGreater |-> 3, Sum |-> 4, Product |-> 5,
     Prefix |-> 6, Call |-> 7]

PRECEDENCES ==
    [Equal |-> ExpressionPrecedence.Equals,
     NotEqual |-> ExpressionPrecedence.Equals,
     LessThan |-> ExpressionPrecedence.LessGreater,
     GreaterThan |-> ExpressionPrecedence.LessGreater,
     Plus |-> ExpressionPrecedence.Sum,
     Minus |-> ExpressionPrecedence.Sum,
     Slash |-> ExpressionPrecedence.Product,
     Asterisk |-> ExpressionPrecedence.Product,
     LeftParen |-> ExpressionPrecedence.Call]

peek_precedence(tokens, p) ==
    LET token_type == TokenAt(tokens, p + 1).token_type
    IN IF token_type \in DOMAIN PRECEDENCES THEN PRECEDENCES[token_type]
       ELSE ExpressionPrecedence.Lowest

current_precedence(tokens, p) ==
    LET token_type == TokenAt(tokens, p).token_type
    IN IF token_type \in DOMAIN PRECEDENCES THEN PRECEDENCES[token_type]
       ELSE ExpressionPrecedence.Lowest

\* expect_peek_token that steps back a token when the expectation fails
expect_peek_token_StepsBack(tokens, p, token_type) ==
    IF TokenAt(tokens, p + 1).token_type = token_type THEN POk(None, p + 1)
    ELSE PErr("expected next token to be " \o token_type \o ", got "
                  \o TokenAt(tokens, p + 1).token_type \o " instead", p - 1)

expect_peek_token(tokens, p, token_type) ==
    IF TokenAt(tokens, p + 1).token_type = token_type THEN POk(None, p + 1)
    ELSE PErr("expected next token to be " \o token_type \o ", got "
                  \o TokenAt(tokens, p + 1).token_type \o " instead", p)

parse_identifier(tokens, p) == POk(Identifier(TokenAt(tokens, p).literal), p)

\* str::parse::<i64> of the literal
parse_integer_literal(tokens, p) ==
    LET literal == TokenAt(tokens, p).literal
        values == {n \in 0..MaxLiteral : ToString(n) = literal}
    IN IF values # {} THEN POk(IntegerLiteral(CHOOSE n \in values : TRUE), p)
       ELSE PErr("ParseIntError", p)

parse_boolean(tokens, p) == POk(BooleanLit(TokenAt(tokens, p).token_type = "True"), p)

RECURSIVE parse_expression(_, _, _)
RECURSIVE parse_statement(_, _)

parse_prefix_expression(tokens, p) ==
    LET built(right) ==
            IF right.ok
            THEN POk(PrefixExpression(TokenAt(tokens, p).literal, right.node), right.p)
            ELSE right
    IN built(parse_expression(tokens, p + 1, ExpressionPrecedence.Prefix))

\* parse_infix_expression with the right operand parsed at the lowest precedence
parse_infix_expression_Lowest(tokens, p, left) ==
    LET built(right) ==
            IF right.ok
            THEN POk(InfixExpression(left, TokenAt(tokens, p).literal, right.node), right.p)
            ELSE right
    IN built(parse_expression(tokens, p + 1, ExpressionPrecedence.Lowest))

parse_infix_expression(tokens, p, left) ==
    LET built(right) ==
            IF right.ok
            THEN POk(InfixExpression(left, TokenAt(tokens, p).literal, right.node), right.p)
            ELSE right
    IN built(parse_expression(tokens, p + 1, current_precedence(tokens, p)))

\* Ok(node) if the token after r is of the type, positioned on that token
Closed(tokens, r, token_type, node) ==
    LET closed == expect_peek_token(tokens, r.p, token_type)
    IN IF closed.ok THEN POk(node, closed.p) ELSE closed

parse_grouped_expression(tokens, p) ==
    LET grouped(expression) ==
            IF expression.ok THEN Closed(tokens, expression, "RightParen", expression.node)
            ELSE expression
    IN grouped(parse_expression(tokens, p + 1, ExpressionPrecedence.Lowest))

RECURSIVE parse_call_arguments_loop(_, _, _)
\* the loop of parse_call_arguments: p is at the token the next argument starts with
parse_call_arguments_loop(tokens, p, args) ==
    LET pushed(arg) ==
            IF ~arg.ok THEN arg
            ELSE IF TokenAt(tokens, arg.p + 1).token_type = "Comma"
            THEN parse_call_arguments_loop(tokens, arg.p + 2, Append(args, arg.node))
            ELSE Closed(tokens, arg, "RightParen", Append(args, arg.node))
    IN pushed(parse_expression(tokens, p, ExpressionPrecedence.Lowest))

parse_call_arguments(tokens, p) ==
    IF TokenAt(tokens, p + 1).token_type = "RightParen" THEN POk(<<>>, p + 1)
    ELSE parse_call_arguments_loop(tokens, p + 1, <<>>)

parse_call_expression(tokens, p, left) ==
    LET built(arguments) ==
            IF arguments.ok THEN POk(CallExpression(left, arguments.node), arguments.p)
            ELSE arguments
    IN built(parse_call_arguments(tokens, p))

RECURSIVE parse_block_statement_loop(_, _, _)
\* the while loop of parse_block_statement: a statement that fails to parse
\* is left out of the block, and its message with it
parse_block_statement_loop(tokens, p, statements) ==
    LET pushed(statement) ==
            parse_block_statement_loop(tokens, statement.p + 1,
                IF statement.ok THEN Append(statements, statement.node) ELSE statements)
    IN IF TokenAt(tokens, p).token_type \notin {"RightBrace", "EOF"}
       THEN pushed(parse_statement(tokens, p))
       ELSE POk(BlockStatement(statements), p)

parse_block_statement(tokens, p) == parse_block_statement_loop(tokens, p + 1, <<>>)

parse_if_expression(tokens, p) ==
    LET opened == expect_peek_token(tokens, p, "LeftParen")
        alternated(consequence, condition) ==
            LET braced == expect_peek_token(tokens, consequence.p + 1, "LeftBrace")
                built(alternative) ==
                    POk(IfExpression(condition.node, consequence.node,
                                     <<alternative.node>>), alternative.p)
            IN IF TokenAt(tokens, consequence.p + 1).token_type # "Else"
               THEN POk(IfExpression(condition.node, consequence.node, <<>>),
                        consequence.p)
               ELSE IF ~braced.ok THEN braced
               ELSE built(parse_block_statement(tokens, braced.p))
        conditioned(condition) ==
            LET closed == expect_peek_token(tokens, condition.p, "RightParen")
                braced == expect_peek_token(tokens, closed.p, "LeftBrace")
            IN IF ~condition.ok THEN condition
               ELSE IF ~closed.ok THEN closed
               ELSE IF ~braced.ok THEN braced
               ELSE alternated(parse_block_statement(tokens, braced.p), condition)
    IN IF ~opened.ok THEN opened
       ELSE conditioned(parse_expression(tokens, opened.p + 1,
                                         ExpressionPrecedence.Lowest))

RECURSIVE parse_function_parameters_loop(_, _, _)
\* the loop of parse_function_parameters: the current token becomes a
\* parameter whatever its type
parse_function_parameters_loop(tokens, p, idents) ==
    IF TokenAt(tokens, p + 1).token_type = "Comma"
    THEN parse_function_parameters_loop(tokens, p + 2,
                                        Append(idents, TokenAt(tokens, p).literal))
    ELSE Closed(tokens, POk(None, p), "RightParen",
                Append(idents, TokenAt(tokens, p).literal))

parse_function_parameters(tokens, p) ==
    IF TokenAt(tokens, p + 1).token_type = "RightParen" THEN POk(<<>>, p + 1)
    ELSE parse_function_parameters_loop(tokens, p + 1, <<>>)

parse_function_literal(tokens, p) ==
    LET opened == expect_peek_token(tokens, p, "LeftParen")
        built(body, parameters) ==
            POk(FunctionLiteral(parameters.node, body.node), body.p)
        bodied(parameters) ==
            LET braced == expect_peek_token(tokens, parameters.p, "LeftBrace")
            IN IF ~parameters.ok THEN parameters
               ELSE IF ~braced.ok THEN braced
               ELSE built(parse_block_statement(tokens, braced.p), parameters)
    IN IF ~opened.ok THEN opened
       ELSE bodied(parse_function_parameters(tokens, opened.p))

RECURSIVE parse_infix_loop(_, _, _, _)
\* the while loop of parse_expression; the tokens that have a precedence are
\* the tokens that have an infix handler
parse_infix_loop(tokens, p, precedence, left_expression) ==
    LET again(infix) ==
            IF infix.ok THEN parse_infix_loop(tokens, infix.p, precedence, infix.node)
            ELSE infix
    IN IF /\ TokenAt(tokens, p + 1).token_type # "Semicolon"
          /\ precedence < peek_precedence(tokens, p)
       THEN again(IF TokenAt(tokens, p + 1).token_type = "LeftParen"
                  THEN parse_call_expression(tokens, p + 1, left_expression)
                  ELSE parse_infix_expression(tokens, p + 1, left_expression))
       ELSE POk(left_expression, p)

parse_expression(tokens, p, precedence) ==
    LET token_type == TokenAt(tokens, p).token_type
        continued(left_expression) ==
            IF left_expression.ok
            THEN parse_infix_loop(tokens, left_expression.p, precedence,
                                  left_expression.node)
            ELSE left_expression
    IN continued(
        CASE token_type = "Ident" -> parse_identifier(tokens, p)
          [] token_type = "Int" -> parse_integer_literal(tokens, p)
          [] token_type \in {"Bang", "Minus"} -> parse_prefix_expression(tokens, p)
          [] token_type \in {"True", "False"} -> parse_boolean(tokens, p)
          [] token_type = "LeftParen" -> parse_grouped_expression(tokens, p)
          [] token_type = "If" -> parse_if_expression(tokens, p)
          [] token_type = "Function" -> parse_function_literal(tokens, p)
          [] OTHER -> PErr("No prefix parse function for " \o token_type \o " found", p))

\* Ok(statement) after the expression r, the semicolon that may follow skipped
Statement(tokens, r, statement) ==
    IF ~r.ok THEN r
    ELSE IF TokenAt(tokens, r.p + 1).token_type = "Semicolon" THEN POk(statement, r.p + 1)
    ELSE POk(statement, r.p)

parse_let_statement(tokens, p) ==
    LET named == expect_peek_token(tokens, p, "Ident")
        assigned == expect_peek_token(tokens, named.p, "Assign")
        bound(value) ==
            Statement(tokens, value, LetStatement(TokenAt(tokens, named.p).literal, value.node))
    IN IF ~named.ok THEN named
       ELSE IF ~assigned.ok THEN assigned
       ELSE bound(parse_expression(tokens, assigned.p + 1, ExpressionPrecedence.Lowest))

parse_return_statement(tokens, p) ==
    LET returned(return_value) ==
            Statement(tokens, return_value, ReturnStatement(return_value.node))
    IN returned(parse_expression(tokens, p + 1, ExpressionPrecedence.Lowest))

parse_expression_statement(tokens, p) ==
    LET stated(expression) ==
            Statement(tokens, expression, ExpressionStatement(expression.node))
    IN stated(parse_expression(tokens, p, ExpressionPrecedence.Lowest))

parse_statement(tokens, p) ==
    CASE TokenAt(tokens, p).token_type = "Let" -> parse_let_statement(tokens, p)
      [] TokenAt(tokens, p).token_type = "Return" -> parse_return_statement(tokens, p)
      [] OTHER -> parse_expression_statement(tokens, p)

RECURSIVE parse_program(_, _, _, _)
\* the loop of parse_program, from Parser::new's position p = 1; yields the
\* Program and the parser's error_messages
parse_program(tokens, p, statements, error_messages) ==
    LET pushed(statement) ==
            IF statement.ok
            THEN parse_program(tokens, statement.p + 1,
                               Append(statements, statement.node), error_messages)
            ELSE parse_program(tokens, statement.p + 1, statements,
                               Append(error_messages, statement.err))
    IN IF TokenAt(tokens, p).token_type # "EOF" THEN pushed(parse_statement(tokens, p))
       ELSE [program |-> Program(statements), error_messages |-> error_messages]

\* ------------------------------------------------------------------ programs

Stmt(e) == ExpressionStatement(e)
Block(stmts) == BlockStatement(stmts)

\* src/tests/evaluator.rs and the examples of the specification
Fixtures == {
    \* if (10 > 1) { if (10 > 1) { return 10; } return 1; }
    << Stmt(IfExpression(InfixExpression(IntegerLiteral(10), ">", IntegerLiteral(1)),
            Block(<< Stmt(IfExpression(
                        InfixExpression(IntegerLiteral(10), ">", IntegerLiteral(1)),
                        Block(<<ReturnStatement(IntegerLiteral(10))>>), <<>>)),
                     ReturnStatement(IntegerLiteral(1)) >>), <<>>)) >>,
    \* 9; return 10; 9;
    << Stmt(IntegerLiteral(9)), ReturnStatement(IntegerLiteral(10)),
       Stmt(IntegerLiteral(9)) >>,
    \* let newAdder = fn(x) { fn(y) { x + y } }; let addTwo = newAdder(2); addTwo(2);
    << LetStatement("newAdder", FunctionLiteral(<<"x">>, Block(<<
            Stmt(FunctionLiteral(<<"y">>, Block(<<
                Stmt(InfixExpression(Identifier("x"), "+", Identifier("y"))) >>))) >>))),
       LetStatement("addTwo", CallExpression(Identifier("newAdder"), <<IntegerLiteral(2)>>)),
       Stmt(CallExpression(Identifier("addTwo"), <<IntegerLiteral(2)>>)) >>,
    \* fn(a) { fn(b) { fn(c) { a + b + c } } }(1)(2)(3)
    << Stmt(CallExpression(CallExpression(CallExpression(
            FunctionLiteral(<<"a">>, Block(<<
                Stmt(FunctionLiteral(<<"b">>, Block(<<
                    Stmt(FunctionLiteral(<<"c">>, Block(<<
                        Stmt(InfixExpression(
                            InfixExpression(Identifier("a"), "+", Identifier("b")),
                            "+", Identifier("c"))) >>))) >>))) >>)),
            <<IntegerLiteral(1)>>), <<IntegerLiteral(2)>>), <<IntegerLiteral(3)>>)) >>,
    \* let f = fn(x) { return x; }; f(1); 2;
    << LetStatement("f", FunctionLiteral(<<"x">>,
            Block(<<ReturnStatement(Identifier("x"))>>))),
       Stmt(CallExpression(Identifier("f"), <<IntegerLiteral(1)>>)),
       Stmt(IntegerLiteral(2)) >>,
    \* let f = fn(x) { return x; }; f(1) + 2
    << LetStatement("f", FunctionLiteral(<<"x">>,
            Block(<<ReturnStatement(Identifier("x"))>>))),
       Stmt(InfixExpression(CallExpression(Identifier("f"), <<IntegerLiteral(1)>>),
                            "+", IntegerLiteral(2))) >>,
    \* let a = 5; let a = 6;
    << LetStatement("a", IntegerLiteral(5)), LetStatement("a", IntegerLiteral(6)) >>,
    \* let x = 1; let f = fn() { let x = 2; x }; f(); x
    << LetStatement("x", IntegerLiteral(1)),
       LetStatement("f", FunctionLiteral(<<>>, Block(<<
            LetStatement("x", IntegerLiteral(2)), Stmt(Identifier("x")) >>))),
       Stmt(CallExpression(Identifier("f"), <<>>)),
       Stmt(Identifier("x")) >>
}

Ops == {"+", "-", "*", "/", "<", ">", "==", "!="}

PrefixOps == {"!", "-"}

Int0 == IntegerLiteral(0)
True == BooleanLit(TRUE)
Foobar == Identifier("foobar")
After == Identifier("after")
Later == Identifier("later")

\* if (false) { 0 }: evaluates to Null
NullAtom == IfExpression(BooleanLit(FALSE), Block(<<Stmt(Int0)>>), <<>>)
\* if (true) { return 0; }: evaluates to a ReturnValue
ReturnAtom == IfExpression(True, Block(<<ReturnStatement(Int0)>>), <<>>)

\* expressions of every object type an expression can evaluate to
Atoms ==
    {IntegerLiteral(n) : n \in 0..MaxInt} \cup
    { True, BooleanLit(FALSE), StringLiteral(""), StringLiteral("a"),
      ArrayLiteral(<<Int0>>), HashLiteral(<<>>),
      FunctionLiteral(<<>>, Block(<<Stmt(Int0)>>)),
      Identifier("len"), Foobar, NullAtom, ReturnAtom }

\* expressions that evaluate to an Error: foobar; -true
ErrAtoms == {Foobar, PrefixExpression("-", True)}

Then == Block(<<Stmt(StringLiteral("then"))>>)
Else == Block(<<Stmt(StringLiteral("else"))>>)

\* every form over the atoms
AtomForms ==
    {PrefixExpression(op, a) : op \in PrefixOps, a \in Atoms} \cup
    {InfixExpression(a, op, b) : a \in Atoms, op \in Ops, b \in Atoms} \cup
    {IfExpression(c, Then, alt) : c \in Atoms, alt \in {<<>>, <<Else>>}} \cup
    {ArrayLiteral(<<a, b>>) : a \in Atoms, b \in Atoms} \cup
    {IndexExpression(a, b) : a \in Atoms, b \in Atoms} \cup
    {HashLiteral(<<<<a, b>>>>) : a \in Atoms, b \in Atoms} \cup
    {CallExpression(a, <<b>>) : a \in Atoms, b \in Atoms}

\* forms whose sub-expression e fails, with after in every later position
ErrForms ==
    UNION {
        { InfixExpression(e, "+", After), IndexExpression(e, After),
          IfExpression(e, Block(<<Stmt(After)>>), <<Block(<<Stmt(After)>>)>>),
          ArrayLiteral(<<e, After>>), ArrayLiteral(<<Int0, e, After>>),
          HashLiteral(<<<<e, After>>>>),
          CallExpression(e, <<After>>),
          CallExpression(Identifier("len"), <<e, After>>),
          CallExpression(Identifier("push"), <<Int0, e, After>>),
          InfixExpression(InfixExpression(Int0, "+", e), "+", After),
          InfixExpression(PrefixExpression("!", e), "+", After),
          IndexExpression(ArrayLiteral(<<e>>), After),
          HashLiteral(<<<<Int0, e>>, <<After, After>>>>),
          PrefixExpression("!", InfixExpression(e, "+", After)),
          CallExpression(FunctionLiteral(<<"x">>, Block(<<Stmt(e), Stmt(After)>>)),
                         <<Int0>>) } : e \in ErrAtoms }

AtomStatements ==
    {Stmt(e) : e \in AtomForms \cup ErrForms \cup Atoms} \cup
    {LetStatement("a", e) : e \in Atoms \cup ErrAtoms} \cup
    {ReturnStatement(e) : e \in Atoms \cup ErrAtoms}

\* let tail = 1; let tail = 2; ... after the statement under test
TailStatements(k) == [i \in 1..k |-> LetStatement("tail", IntegerLiteral(i))]

Tails == {TailStatements(k) : k \in 0..MaxTail}

Conds == {True, BooleanLit(FALSE), Int0, NullAtom, Foobar}

\* if (c1) { pre; if (c2) { return "inner"; after } return "outer"; after }
\* else { return "else"; }
NestedReturn(c1, c2) ==
    Stmt(IfExpression(c1,
        Block(<< LetStatement("pre", Int0),
                 Stmt(IfExpression(c2,
                        Block(<<ReturnStatement(StringLiteral("inner")), Stmt(Later)>>),
                        <<>>)),
                 ReturnStatement(StringLiteral("outer")),
                 Stmt(Later) >>),
        <<Block(<<ReturnStatement(StringLiteral("else"))>>)>>))

ReturnPrograms ==
    {<<Stmt(IntegerLiteral(9)), NestedReturn(c1, c2)>> : c1 \in Conds, c2 \in Conds}

\* bodies of fn(x) { ... }, with and without return
Bodies ==
    { <<Stmt(Identifier("x"))>>,
      <<ReturnStatement(Identifier("x"))>>,
      <<ReturnStatement(Identifier("x")), Stmt(Later)>>,
      <<Stmt(IfExpression(True, Block(<<ReturnStatement(Identifier("x"))>>), <<>>)),
        Stmt(Later)>>,
      <<Stmt(IfExpression(Identifier("x"), Block(<<ReturnStatement(Int0)>>),
                          <<Block(<<Stmt(Int0)>>)>>))>> }

Args == {Int0, True, StringLiteral("a"), BooleanLit(FALSE)}

\* calls of a user function in statement, operand, let, element and nested
\* call position
CallPrograms ==
    UNION {
        LET F == FunctionLiteral(<<"x">>, Block(body))
            call == CallExpression(Identifier("f"), <<a>>)
        IN { <<LetStatement("f", F), Stmt(call)>>,
             <<LetStatement("f", F), Stmt(InfixExpression(call, "==", a))>>,
             <<LetStatement("f", F), LetStatement("r", call), Stmt(Identifier("r"))>>,
             <<LetStatement("f", F), Stmt(ArrayLiteral(<<call>>))>>,
             <<LetStatement("f", F),
               LetStatement("g", FunctionLiteral(<<"y">>,
                    Block(<<Stmt(CallExpression(Identifier("f"), <<Identifier("y")>>)),
                            Stmt(StringLiteral("g"))>>))),
               Stmt(CallExpression(Identifier("g"), <<a>>))>>,
             <<Stmt(CallExpression(F, <<a>>))>> }
        : body \in Bodies, a \in Args }

\* fn(a) { fn(b) { a + b } } and fn(a) { fn(b) { fn(c) { a + b + c } } }
Adder2 ==
    FunctionLiteral(<<"a">>, Block(<<Stmt(FunctionLiteral(<<"b">>, Block(<<
        Stmt(InfixExpression(Identifier("a"), "+", Identifier("b"))) >>))) >>))
Adder3 ==
    FunctionLiteral(<<"a">>, Block(<<Stmt(FunctionLiteral(<<"b">>, Block(<<
        Stmt(FunctionLiteral(<<"c">>, Block(<<
            Stmt(InfixExpression(
                InfixExpression(Identifier("a"), "+", Identifier("b")),
                "+", Identifier("c"))) >>))) >>))) >>))

Call1(f, a) == CallExpression(f, <<a>>)

\* closures applied at once, or bound by let between the applications
ClosurePrograms ==
    UNION {
        { <<Stmt(Call1(Call1(Adder2, x), y))>>,
          <<LetStatement("f", Adder2), Stmt(Call1(Call1(Identifier("f"), x), y))>>,
          <<LetStatement("g", Call1(Adder2, x)), Stmt(Call1(Identifier("g"), y))>>,
          <<Stmt(Call1(Call1(Call1(Adder3, x), y), x))>>,
          <<LetStatement("f", Adder3),
            LetStatement("g", Call1(Identifier("f"), x)),
            LetStatement("h", Call1(Identifier("g"), y)),
            Stmt(Call1(Identifier("h"), x))>>,
          <<LetStatement("f", Adder3),
            LetStatement("h", Call1(Call1(Identifier("f"), x), y)),
            Stmt(Call1(Identifier("h"), x))>>,
          <<LetStatement("g", Call1(Adder3, x)),
            Stmt(Call1(Call1(Identifier("g"), y), x))>>,
          \* a function bound in the frame it captured keeps that frame alive
          <<LetStatement("h", Call1(Call1(
                FunctionLiteral(<<"a">>, Block(<<
                    LetStatement("self", FunctionLiteral(<<"b">>, Block(<<
                        Stmt(FunctionLiteral(<<"c">>, Block(<<
                            Stmt(InfixExpression(Identifier("a"), "+",
                                                 Identifier("c"))) >>))) >>))),
                    Stmt(Identifier("self")) >>)), x), y)),
            Stmt(Call1(Identifier("h"), x))>> }
        : x \in {IntegerLiteral(n) : n \in 0..MaxInt},
          y \in {IntegerLiteral(n) : n \in 0..MaxInt} }

\* let inside a function body, reusing a name of the captured environment
ShadowPrograms ==
    UNION {
        { <<LetStatement("x", a),
            LetStatement("f", FunctionLiteral(params, Block(<<
                LetStatement("x", b), Stmt(Identifier("x")) >>))),
            Stmt(CallExpression(Identifier("f"), <<Int0>>)),
            Stmt(Identifier("x"))>>,
          <<LetStatement("x", a),
            LetStatement("mk", FunctionLiteral(params, Block(<<
                Stmt(FunctionLiteral(<<>>, Block(<<
                    LetStatement("x", b), Stmt(Identifier("x")) >>))) >>))),
            LetStatement("g", CallExpression(Identifier("mk"), <<Int0>>)),
            Stmt(CallExpression(Identifier("g"), <<>>)),
            Stmt(Identifier("x"))>>,
          <<LetStatement("len", a), Stmt(Identifier("len")),
            Stmt(CallExpression(FunctionLiteral(params, Block(<<
                Stmt(Identifier("len")), Stmt(Identifier("x")),
                Stmt(Identifier("first")) >>)), <<b>>))>> }
        : a \in Args, b \in Args, params \in {<<>>, <<"x">>, <<"len">>} }

\* let a = y; let a = x;
RebindPrograms ==
    {<<LetStatement("a", y), LetStatement("a", x)>> : x \in Atoms, y \in Atoms}

\* n as an expression: a literal, or - applied to a literal
IntExpr(n) ==
    IF n >= 0 THEN IntegerLiteral(n) ELSE PrefixExpression("-", IntegerLiteral(-n))

\* [11, 12, ...] of length n
ArrayOf(n) == ArrayLiteral([k \in 1..n |-> IntegerLiteral(10 + k)])

\* [..][i], directly and through let
ArrayIndexPrograms ==
    UNION {
        { <<Stmt(IndexExpression(ArrayOf(n), IntExpr(i)))>>,
          <<LetStatement("myArray", ArrayOf(n)), LetStatement("i", IntExpr(i)),
            Stmt(IndexExpression(Identifier("myArray"), Identifier("i")))>> }
        : n \in 0..MaxLen, i \in (0 - MaxIndex)..MaxIndex }

\* expressions used as hash keys: hashable ones and others
KeyExprs ==
    { Int0, IntegerLiteral(1), True, BooleanLit(FALSE), StringLiteral(""),
      StringLiteral("a"), NullAtom, ArrayLiteral(<<>>),
      FunctionLiteral(<<>>, Block(<<Stmt(Int0)>>)) }

\* {k1: "first", k2: "second"}[k], the pairs in the order the literal's
\* HashMap yields them
HashIndexPrograms ==
    { <<Stmt(IndexExpression(
            HashLiteral(<< <<k1, StringLiteral("first")>>,
                           <<k2, StringLiteral("second")>> >>), k))>>
      : k1 \in KeyExprs, k2 \in KeyExprs, k \in KeyExprs }

Unquote(e) == CallExpression(Identifier("unquote"), <<e>>)
QuoteOf(e) == CallExpression(Identifier("quote"), <<e>>)
Call(name, args) == CallExpression(Identifier(name), args)
Puts(str) == Call("puts", <<StringLiteral(str)>>)

\* src/tests/evaluator/quote.rs: the expressions handed to unquote, of each
\* object type convert_object_to_ast_node tells apart
UnquoteArgs == {
    IntegerLiteral(4),
    InfixExpression(IntegerLiteral(4), "+", IntegerLiteral(4)),
    True,
    InfixExpression(True, "==", BooleanLit(FALSE)),
    QuoteOf(InfixExpression(IntegerLiteral(4), "+", IntegerLiteral(4))),
    Foobar,
    StringLiteral("four") }

\* the places of a quoted expression an expression u can stand in
QuotePlaces(u) == {
    u,
    InfixExpression(IntegerLiteral(8), "+", u),
    InfixExpression(u, "+", IntegerLiteral(8)),
    PrefixExpression("-", u),
    IndexExpression(Foobar, u),
    IfExpression(True, Block(<<Stmt(u)>>), <<Block(<<Stmt(u)>>)>>),
    FunctionLiteral(<<"x">>, Block(<<Stmt(u), Stmt(Identifier("x"))>>)),
    Call("foobar", <<u>>),
    ArrayLiteral(<<u>>),
    HashLiteral(<< <<IntegerLiteral(1), u>> >>) }

\* quoted expressions without a call of unquote with one argument
QuotedPlain == {
    IntegerLiteral(5),
    InfixExpression(IntegerLiteral(5), "+", IntegerLiteral(8)),
    Foobar,
    InfixExpression(Foobar, "+", Identifier("barfoo")),
    Call("foobar", <<IntegerLiteral(5)>>),
    ArrayLiteral(<<Foobar, IntegerLiteral(5)>>),
    HashLiteral(<< <<IntegerLiteral(1), Foobar>> >>),
    HashLiteral(<< <<IntegerLiteral(1), IntegerLiteral(2)>>,
                   <<IntegerLiteral(3), IntegerLiteral(4)>> >>),
    IfExpression(Foobar, Block(<<ReturnStatement(Foobar)>>), <<>>),
    Call("unquote", <<>>),
    Call("unquote", <<IntegerLiteral(4), IntegerLiteral(4)>>) }

QuotePrograms ==
    LET Quoted == QuotedPlain \cup UNION {QuotePlaces(Unquote(x)) : x \in UnquoteArgs}
    IN {<<Stmt(QuoteOf(e))>> : e \in Quoted}
         \cup {<<LetStatement("foobar", IntegerLiteral(8)), Stmt(QuoteOf(e))>> :
                 e \in Quoted}
         \cup { <<Stmt(Call("quote", <<>>))>>,
                <<Stmt(Call("quote", <<IntegerLiteral(5), Foobar>>))>>,
                \* let quotedInfixExpression = quote(4 + 4);
                \* quote(unquote(4 + 4) + unquote(quotedInfixExpression))
                <<LetStatement("quotedInfixExpression", QuoteOf(
                      InfixExpression(IntegerLiteral(4), "+", IntegerLiteral(4)))),
                  Stmt(QuoteOf(InfixExpression(
                      Unquote(InfixExpression(IntegerLiteral(4), "+", IntegerLiteral(4))),
                      "+", Unquote(Identifier("quotedInfixExpression")))))>> }

\* let a = [11, ..]; then push(a, v) and rest(a) bound to b and c, in either order
PushRest(n, v, pushed_first) ==
    <<LetStatement("a", ArrayOf(n))>>
        \o (IF pushed_first
            THEN <<LetStatement("b", Call("push", <<Identifier("a"), v>>)),
                   LetStatement("c", Call("rest", <<Identifier("a")>>))>>
            ELSE <<LetStatement("c", Call("rest", <<Identifier("a")>>)),
                   LetStatement("b", Call("push", <<Identifier("a"), v>>))>>)
        \o <<Stmt(Identifier("a"))>>

\* the values pushed: an integer, a string, the array itself
Pushed == {IntegerLiteral(3), StringLiteral("x"), Identifier("a")}

PushRestPrograms ==
    {PushRest(n, v, pushed_first) : n \in 0..MaxLen, v \in Pushed, pushed_first \in BOOLEAN}

ParameterNames == <<"x", "y", "z", "w">>

\* let f = fn(p1, .., pk) { .. }; f(1, .., n): a function of k parameters
\* applied to n arguments, its body the last parameter or a literal
ArityPrograms ==
    {<<LetStatement("f", FunctionLiteral([i \in 1..k |-> ParameterNames[i]], Block(<<Stmt(body)>>))),
       Stmt(Call("f", [i \in 1..n |-> IntegerLiteral(i)]))>>
       : k \in 0..MaxParameters, n \in 0..(MaxParameters + 1),
         body \in {Int0} \cup {Identifier(ParameterNames[i]) : i \in 1..MaxParameters}}

\* a / b
Quotient(a, b) == <<Stmt(InfixExpression(IntExpr(a), "/", IntExpr(b)))>>

DivisionPrograms ==
    {Quotient(a, b) : a \in (0 - MaxOperand)..MaxOperand, b \in (0 - MaxOperand)..MaxOperand}

Programs ==
    DivisionPrograms \cup ArityPrograms \cup PushRestPrograms \cup Fixtures \cup ReturnPrograms \cup CallPrograms \cup ClosurePrograms
        \cup ShadowPrograms \cup RebindPrograms
        \cup ArrayIndexPrograms \cup HashIndexPrograms \cup QuotePrograms
        \cup {<<s>> \o t : s \in AtomStatements, t \in Tails}
        \cup {p \o t : p \in ReturnPrograms \cup CallPrograms, t \in Tails}

\* ------------------------------------------------------------------ macro programs
\* src/tests/evaluator/macro_expansion.rs

\* the macro definitions: name, literal, a call of it and what the call
\* expands to
MacroFixtures == {
    \* let infixExpression = macro() { quote(1 + 2); }; infixExpression();
    [name |-> "infixExpression",
     literal |-> MacroLiteral(<<>>, Block(<<Stmt(QuoteOf(
                    InfixExpression(IntegerLiteral(1), "+", IntegerLiteral(2))))>>)),
     call |-> Call("infixExpression", <<>>),
     expected |-> InfixExpression(IntegerLiteral(1), "+", IntegerLiteral(2))],
    \* let reverse = macro(a, b) { quote(unquote(b) - unquote(a)); };
    \* reverse(2 + 2, 10 - 5);
    [name |-> "reverse",
     literal |-> MacroLiteral(<<"a", "b">>, Block(<<Stmt(QuoteOf(
                    InfixExpression(Unquote(Identifier("b")), "-",
                                    Unquote(Identifier("a")))))>>)),
     call |-> Call("reverse",
                   <<InfixExpression(IntegerLiteral(2), "+", IntegerLiteral(2)),
                     InfixExpression(IntegerLiteral(10), "-", IntegerLiteral(5))>>),
     expected |-> InfixExpression(
                    InfixExpression(IntegerLiteral(10), "-", IntegerLiteral(5)), "-",
                    InfixExpression(IntegerLiteral(2), "+", IntegerLiteral(2)))],
    \* let unless = macro(condition, consequence, alternative) {
    \*   quote(if (!(unquote(condition))) { unquote(consequence); }
    \*         else { unquote(alternative); }); };
    \* unless(10 > 5, puts("not greater"), puts("greater"));
    [name |-> "unless",
     literal |-> MacroLiteral(<<"condition", "consequence", "alternative">>,
                    Block(<<Stmt(QuoteOf(IfExpression(
                        PrefixExpression("!", Unquote(Identifier("condition"))),
                        Block(<<Stmt(Unquote(Identifier("consequence")))>>),
                        <<Block(<<Stmt(Unquote(Identifier("alternative")))>>)>>)))>>)),
     call |-> Call("unless",
                   <<InfixExpression(IntegerLiteral(10), ">", IntegerLiteral(5)),
                     Puts("not greater"), Puts("greater")>>),
     expected |-> IfExpression(
                    PrefixExpression("!",
                        InfixExpression(IntegerLiteral(10), ">", IntegerLiteral(5))),
                    Block(<<Stmt(Puts("not greater"))>>),
                    <<Block(<<Stmt(Puts("greater"))>>)>>)] }

\* the places of a program a call expression e can stand in
Places(e) == {
    Stmt(e),
    LetStatement("x", e),
    ReturnStatement(e),
    Stmt(InfixExpression(e, "+", IntegerLiteral(1))),
    Stmt(InfixExpression(IntegerLiteral(1), "+", e)),
    Stmt(PrefixExpression("-", e)),
    Stmt(IndexExpression(e, IntegerLiteral(0))),
    Stmt(IndexExpression(Identifier("x"), e)),
    Stmt(Call("puts", <<e>>)),
    Stmt(ArrayLiteral(<<IntegerLiteral(1), e>>)),
    Stmt(HashLiteral(<< <<e, IntegerLiteral(1)>> >>)),
    Stmt(HashLiteral(<< <<IntegerLiteral(1), e>> >>)),
    Stmt(IfExpression(e, Block(<<Stmt(IntegerLiteral(1))>>), <<>>)),
    Stmt(IfExpression(True, Block(<<Stmt(e)>>), <<>>)),
    Stmt(IfExpression(True, Block(<<Stmt(IntegerLiteral(1))>>), <<Block(<<Stmt(e)>>)>>)),
    Stmt(FunctionLiteral(<<"x">>, Block(<<Stmt(e)>>))),
    Stmt(ArrayLiteral(<<InfixExpression(IntegerLiteral(1), "+", e)>>)),
    Stmt(Call("puts", <<PrefixExpression("-", e)>>)) }

\* a macro definition and one call of the macro, the call before or after it
ExpandPrograms ==
    UNION { { <<LetStatement(d.name, d.literal), s>>,
              <<s, LetStatement(d.name, d.literal)>> } :
            d \in MacroFixtures, s \in UNION {Places(d.call) : d \in MacroFixtures} }

\* let number = 1; let function = fn(x, y) { x + y };
\* let mymacro = macro(x, y) { x + y };
DefineStatements == {
    LetStatement("number", IntegerLiteral(1)),
    LetStatement("function", FunctionLiteral(<<"x", "y">>, Block(<<Stmt(
        InfixExpression(Identifier("x"), "+", Identifier("y")))>>))),
    LetStatement("mymacro", MacroLiteral(<<"x", "y">>, Block(<<Stmt(
        InfixExpression(Identifier("x"), "+", Identifier("y")))>>))),
    LetStatement("mymacro", MacroLiteral(<<>>, Block(<<Stmt(IntegerLiteral(1))>>))),
    LetStatement("other", MacroLiteral(<<"x">>, Block(<<Stmt(Identifier("x"))>>))),
    Stmt(Call("mymacro", <<IntegerLiteral(1), IntegerLiteral(2)>>)) }

RECURSIVE SeqsOf(_, _)
\* the sequences over S of length at most n
SeqsOf(S, n) ==
    IF n = 0 THEN {<<>>}
    ELSE LET shorter == SeqsOf(S, n - 1)
         IN shorter \cup {Append(q, x) : q \in shorter, x \in S}

DefinePrograms == SeqsOf(DefineStatements, MaxStatements)

MacroPrograms == ExpandPrograms \cup DefinePrograms

\* ------------------------------------------------------------------ modify inputs
\* src/tests/ast.rs: the nodes of test_modify, built from one() and two()

Literals == {IntegerLiteral(n) : n \in 0..(MaxInt + 1)}

\* one node of each type modify has a branch for, over the expressions E
FormsOver(E) ==
    {InfixExpression(a, "+", b) : a \in E, b \in E}
        \cup {PrefixExpression("-", a) : a \in E}
        \cup {IndexExpression(a, b) : a \in E, b \in E}
        \cup {IfExpression(a, Block(<<Stmt(b)>>), <<Block(<<Stmt(a)>>)>>) : a \in E, b \in E}
        \cup {IfExpression(a, Block(<<Stmt(b)>>), <<>>) : a \in E, b \in E}
        \cup {FunctionLiteral(<<>>, Block(<<Stmt(a)>>)) : a \in E}
        \cup {ArrayLiteral(<<a, b>>) : a \in E, b \in E}
        \cup {HashLiteral(<< <<a, b>> >>) : a \in E, b \in E}

ModifyInputs ==
    LET E == Literals \cup FormsOver(Literals)
            \cup {ArrayLiteral(<<PrefixExpression("-", a)>>) : a \in Literals}
            \cup {PrefixExpression("-", ArrayLiteral(<<a>>)) : a \in Literals}
            \cup {HashLiteral(<< <<a, b>>, <<c, b>> >>) :
                     a \in Literals, b \in Literals, c \in Literals}
    IN E \cup {Stmt(e) : e \in E}
         \cup {LetStatement("ident", e) : e \in E}
         \cup {ReturnStatement(e) : e \in E}
         \cup {Program(<<Stmt(e)>>) : e \in E}

\* ------------------------------------------------------------------ parser inputs
\* src/tests/parser/precedence.rs: token streams as the lexer yields them

InfixTokens ==
    {Token("Equal", "=="), Token("NotEqual", "!="), Token("LessThan", "<"),
     Token("GreaterThan", ">"), Token("Plus", "+"), Token("Minus", "-"),
     Token("Asterisk", "*"), Token("Slash", "/")}

Names == <<"a", "b", "c", "d", "e", "f">>

OperandKinds == {"ident", "int", "bool", "minus", "bang", "call", "group"}

\* the tokens of an operand: name, 1, true, -name, !name, name(x), (name + x)
Operand(kind, name) ==
    CASE kind = "ident" -> <<Token("Ident", name)>>
      [] kind = "int" -> <<Token("Int", "1")>>
      [] kind = "bool" -> <<Token("True", "true")>>
      [] kind = "minus" -> <<Token("Minus", "-"), Token("Ident", name)>>
      [] kind = "bang" -> <<Token("Bang", "!"), Token("Ident", name)>>
      [] kind = "call" ->
            <<Token("Ident", name), Token("LeftParen", "("), Token("Ident", "x"),
              Token("RightParen", ")")>>
      [] kind = "group" ->
            <<Token("LeftParen", "("), Token("Ident", name), Token("Plus", "+"),
              Token("Ident", "x"), Token("RightParen", ")")>>

\* operand kinds of n operands, at most one of them not an identifier
KindsOf(n) ==
    {[i \in 1..n |-> IF i = k THEN kind ELSE "ident"] : k \in 1..n, kind \in OperandKinds}

RECURSIVE Chain(_, _)
\* operand ops[1] operand ops[2] ... operand, the operands named a, b, c, ...
Chain(ops, kinds) ==
    LET n == Len(ops)
    IN IF n = 0 THEN Operand(kinds[1], Names[1])
       ELSE Chain(SubSeq(ops, 1, n - 1), SubSeq(kinds, 1, n)) \o <<ops[n]>>
                \o Operand(kinds[n + 1], Names[n + 1])

\* a + b * c + d / e - f
LongChain ==
    Chain(<<Token("Plus", "+"), Token("Asterisk", "*"), Token("Plus", "+"),
            Token("Slash", "/"), Token("Minus", "-")>>, [i \in 1..6 |-> "ident"])

ParseFixtures ==
    {LongChain,
     \* 3 + 4; -5 * 5
     <<Token("Int", "3"), Token("Plus", "+"), Token("Int", "4"), Token("Semicolon", ";"),
       Token("Minus", "-"), Token("Int", "5"), Token("Asterisk", "*"), Token("Int", "5")>>,
     \* let x = a + b * c;
     <<Token("Let", "let"), Token("Ident", "x"), Token("Assign", "=")>>
        \o Chain(<<Token("Plus", "+"), Token("Asterisk", "*")>>, [i \in 1..3 |-> "ident"])
        \o <<Token("Semicolon", ";")>>,
     \* return a * b + c;
     <<Token("Return", "return")>>
        \o Chain(<<Token("Asterisk", "*"), Token("Plus", "+")>>, [i \in 1..3 |-> "ident"])
        \o <<Token("Semicolon", ";")>>,
     \* add(a, b * c)
     <<Token("Ident", "add"), Token("LeftParen", "("), Token("Ident", "a"),
       Token("Comma", ","), Token("Ident", "b"), Token("Asterisk", "*"),
       Token("Ident", "c"), Token("RightParen", ")")>>,
     \* add()
     <<Token("Ident", "add"), Token("LeftParen", "("), Token("RightParen", ")")>>,
     \* a +
     <<Token("Ident", "a"), Token("Plus", "+")>>,
     \* (a + b
     <<Token("LeftParen", "("), Token("Ident", "a"), Token("Plus", "+"),
       Token("Ident", "b")>>}

\* the tokens Parser::new(Lexer::new(source)) reads
Lexed(source) == Lex(LexerNew(Chars(source)), <<>>).tokens

\* sources of well-formed programs
WellFormed ==
    {"a", "5", "12", "true", "-a", "!a", "a + b", "a + b * c", "(a + b) * c",
     "add(a, b)", "let x = 5;", "return x;", "let x = a + b;", "let x = 1; x",
     "a; b", "3 + 4; -5 * 5",
     "if (a) { b }", "if (a < b) { a } else { b }", "if (a) { let x = 1; x }",
     "fn(x, y) { x + y }", "fn() { a }", "fn(x) { return x; }",
     "let f = fn(x) { return x; };", "fn(x) { x }(1)"}

\* sources whose statements, in blocks too, each end with a semicolon
Terminated ==
    {"a;", "let x = 1;", "if (a) { b; };", "if (a) { b; c; } else { d; };",
     "fn(x) { let y = x; return y; };", "let f = fn(x) { x; };",
     "if (a) { fn(x) { x; }; };",
     "let ;", "a + ;", "if (a) { let ; };", "if (a) { a + ; };",
     "if (a) { b; } else { let x 1; };", "fn(x) { return ); };",
     "fn(x) { let = 1; x; };", "if (a) { if (b { c; }; };"}

\* sources that end early or hold a token out of place
Malformed ==
    {"let x = ;", "if (a { b }", "if (a) b", "if (a) { b", "if (a) { b } else",
     "if (a) { b } else c", "fn(a, { b }", "fn(a,", "fn(1, +) { a }", "fn a",
     "add(a,", "add(a, b", "add(a b)", "{", "}", "a }", "fn(x) { a + } b"}

WellFormedInputs == {Lexed(source) : source \in WellFormed}

TerminatedInputs == {Lexed(source) : source \in Terminated}

MalformedInputs == {Lexed(source) : source \in Malformed}

StreamTokens ==
    {Token("If", "if"), Token("Else", "else"), Token("Function", "fn"),
     Token("Let", "let"), Token("Ident", "a"), Token("LeftParen", "("),
     Token("RightParen", ")"), Token("LeftBrace", "{"), Token("RightBrace", "}"),
     Token("Comma", ","), Token("Semicolon", ";"), Token("Plus", "+")}

\* every token stream of up to MaxTokens of these tokens
Streams == UNION {[1..n -> StreamTokens] : n \in 0..MaxTokens}

ParseInputs ==
    ParseFixtures
        \cup UNION {{Chain(ops, kinds) : ops \in [1..n -> InfixTokens],
                                         kinds \in KindsOf(n + 1)} : n \in 1..MaxOperators}
        \cup WellFormedInputs \cup TerminatedInputs \cup MalformedInputs
        \cup Streams

\* ------------------------------------------------------------------ eval_program

Init ==
    /\ program \in Programs
    /\ idx = 1
    /\ heap = <<EnvironmentNew>>
    /\ result = None
    /\ done = FALSE
    /\ log = <<>>
    /\ pc = "eval"

\* one iteration of eval_program's loop: evaluate statement idx in the root
\* frame; a ReturnValue is unwrapped and returned, an Error is returned
EvalStatement ==
    /\ ~done
    /\ idx <= Len(program)
    /\ \E order \in HashOrders :
       LET returned(r, fin) ==
               /\ result' = IF r.obj.type = "ReturnValue" THEN r.obj.value ELSE r.obj
               /\ done' = fin
               /\ idx' = IF fin THEN idx ELSE idx + 1
               /\ heap' = r.st.heap
               /\ log' = Append(r.st.log, [ev |-> "top", idx |-> idx, obj |-> r.obj])
           evaluated(r) == returned(r, r.obj.type \in {"ReturnValue", "Error", "Panic"})
       IN evaluated(Eval(program[idx], 1,
                         [heap |-> heap,
                          log |-> Append(log, [ev |-> "stmt", pos |-> "stmt"])],
                         [roots |-> {1} \cup Refs(result), pos |-> "stmt",
                          order |-> order]))
    /\ UNCHANGED <<program, pc>>

\* eval_program's loop is exhausted: it returns `result`
EvalProgramEnd ==
    /\ ~done
    /\ idx > Len(program)
    /\ done' = TRUE
    /\ UNCHANGED <<program, idx, heap, result, log, pc>>

Next == EvalStatement \/ EvalProgramEnd

Spec == Init /\ [][Next]_vars

\* ------------------------------------------------------------------ macro expansion
\* src/src/repl.rs, src/tests/evaluator/macro_expansion.rs: the parsed program
\* goes through define_macros and then expand_macro, both with the macro
\* environment, which is frame 1 of the heap

MacroInit ==
    /\ program \in MacroPrograms
    /\ idx = 1
    /\ heap = <<EnvironmentNew>>
    /\ result = None
    /\ done = FALSE
    /\ log = <<>>
    /\ pc = "define_macros"

DefineMacros ==
    /\ pc = "define_macros"
    /\ LET r == define_macros(program, heap)
       IN /\ program' = r.statements
          /\ heap' = r.heap
          /\ log' = Append(log, [ev |-> "define", statements |-> program,
                                 indices |-> r.indices])
    /\ pc' = "expand_macro"
    /\ UNCHANGED <<idx, result, done>>

\* result is the node expand_macro returns; an abort leaves the Panic there
ExpandMacro ==
    /\ pc = "expand_macro"
    /\ \E order \in HashOrders :
       LET expanded(r) ==
               /\ program' = IF r.halt # None THEN program ELSE r.inplace.statements
               /\ result' = IF r.halt # None THEN r.halt ELSE r.node
               /\ heap' = r.st.heap
               /\ log' = r.st.log
       IN expanded(expand_macro(program, [heap |-> heap, log |-> log],
                                [roots |-> {1}, pos |-> "stmt", order |-> order]))
    /\ pc' = "expanded"
    /\ done' = TRUE
    /\ UNCHANGED idx

MacroNext == DefineMacros \/ ExpandMacro

MacroSpec == MacroInit /\ [][MacroNext]_vars

\* ------------------------------------------------------------------ test_modify
\* src/tests/ast.rs: modify(input, &turn_one_into_two).  program is the input
\* node, as it is after the call; result is the node modify returns.

ModifyInit ==
    /\ program \in ModifyInputs
    /\ idx = 1
    /\ heap = <<EnvironmentNew>>
    /\ result = None
    /\ done = FALSE
    /\ log = <<>>
    /\ pc = "modify"

Modify ==
    /\ pc = "modify"
    /\ \E order \in HashOrders :
       LET modified(r) ==
               /\ program' = r.inplace
               /\ result' = r.node
               /\ log' = Append(r.st.log, [ev |-> "modify", node |-> program])
       IN modified(modify(program, "turn_one_into_two", 1, [heap |-> heap, log |-> log],
                          [roots |-> {1}, pos |-> "stmt", order |-> order]))
    /\ pc' = "modified"
    /\ done' = TRUE
    /\ UNCHANGED <<idx, heap>>

ModifySpec == ModifyInit /\ [][Modify]_vars

\* ------------------------------------------------------------------ parse_program
\* src/tests/parser/helpers.rs: parse_program_from.  program is the token
\* stream the lexer yields, result the Program parse_program returns.

ParseInit ==
    /\ program \in ParseInputs
    /\ idx = 1
    /\ heap = <<EnvironmentNew>>
    /\ result = None
    /\ done = FALSE
    /\ log = <<>>
    /\ pc = "parse_program"

ParseProgram ==
    /\ pc = "parse_program"
    /\ LET parsed(r) ==
               /\ result' = r.program
               /\ log' = <<[ev |-> "parse", error_messages |-> r.error_messages]>>
       IN parsed(parse_program(program, 1, <<>>, <<>>))
    /\ pc' = "parsed"
    /\ done' = TRUE
    /\ UNCHANGED <<program, idx, heap>>

ParseSpec == ParseInit /\ [][ParseProgram]_vars

\* ------------------------------------------------------------------ next_token
\* src/src/lexer.rs: a caller draws tokens from a Lexer until EOF, as the tests
\* of the lexer and Parser::next_token do.  program is the input, a sequence
\* of characters; heap is the Lexer; result is the token the last call
\* returned and log the tokens returned so far; idx counts the calls; pc is
\* "next_token" while tokens are drawn, "eof" once EOF was returned and
\* "panicked" when a call aborted.

LexCharacters == {"a", "1", " ", "+", "=", "@", NonAscii}

LexFixtures ==
    {Chars("let x = 5;"), Chars("a != b1"), Chars("if (a_b == 10) { fn }"),
     Chars("@ ab 12"),
     <<NonAscii>> \o Chars(" ab"), <<NonAscii>> \o Chars("ab"),
     Chars("ab ") \o <<NonAscii>>, Chars("x = ") \o <<NonAscii>> \o Chars(" + 12")}

\* every input of up to MaxCharacters of these characters
LexInputs ==
    LexFixtures \cup UNION {[1..n -> LexCharacters] : n \in 0..MaxCharacters}

LexInit ==
    /\ program \in LexInputs
    /\ idx = 0
    /\ heap = LexerNew(program)
    /\ result = None
    /\ done = FALSE
    /\ log = <<>>
    /\ pc = "next_token"

NextToken ==
    /\ pc = "next_token"
    /\ LET returned(next) ==
               IF next.panic
               THEN /\ pc' = "panicked"
                    /\ UNCHANGED <<heap, result, log>>
               ELSE /\ pc' = IF next.token.token_type = "EOF" THEN "eof" ELSE "next_token"
                    /\ heap' = next.lexer
                    /\ result' = next.token
                    /\ log' = Append(log, next.token)
       IN returned(next_token(heap))
    /\ idx' = idx + 1
    /\ done' = (pc' # "next_token")
    /\ UNCHANGED program

LexSpec == LexInit /\ [][NextToken]_vars

\* ------------------------------------------------------------------ repl
\* src/src/repl.rs: start.  program is what standard input still holds, a
\* sequence of lines, and end-of-input when it is empty; result is the line
\* of the current iteration and idx the number of bytes read_line read into
\* it; heap holds the frames of env and of macro_env; log is what the current
\* iteration has written to the output; pc is the place in the loop, or
\* "returned" once start has returned, or "panicked".

PROMPT == ">> "

ReplLines == {"let a = 5;", "a", "a +", "let f = fn(x) { x + a };", "f(1)", ""}

\* standard input: up to MaxLines lines, then end-of-input
Stdin == UNION {[1..n -> ReplLines] : n \in 0..MaxLines}

RECURSIVE eval_program(_, _, _, _, _)
\* eval_program from statement i on, result being the value of the one before
eval_program(statements, i, last, st, order) ==
    LET evaluated(r) ==
            IF r.obj.type = "ReturnValue" THEN Ret(r.obj.value, r.st)
            ELSE IF r.obj.type \in {"Error", "Panic"} THEN r
            ELSE eval_program(statements, i + 1, r.obj, r.st, order)
    IN IF i > Len(statements) THEN Ret(last, st)
       ELSE evaluated(Eval(statements[i], 1, st,
                           [roots |-> {1} \cup Refs(last), pos |-> "stmt",
                            order |-> order]))

ReplInit ==
    /\ program \in Stdin
    /\ idx = 0
    /\ heap = [env |-> <<EnvironmentNew>>, macro_env |-> <<EnvironmentNew>>]
    /\ result = ""
    /\ done = FALSE
    /\ log = <<>>
    /\ pc = "prompt"

\* let mut line = String::new(); write!(output, PROMPT); flush
WritePrompt ==
    /\ pc = "prompt"
    /\ result' = ""
    /\ log' = <<PROMPT>>
    /\ pc' = "read_line"
    /\ UNCHANGED <<program, idx, heap, done>>

\* io::stdin().read_line(&mut line): at end-of-input it reads zero bytes and
\* leaves the line empty
ReadLine ==
    /\ pc = "read_line"
    /\ IF program = <<>>
       THEN /\ idx' = 0
            /\ UNCHANGED <<program, result>>
       ELSE /\ idx' = Len(Head(program)) + 1
            /\ result' = Head(program)
            /\ program' = Tail(program)
    /\ pc' = "parse_program"
    /\ UNCHANGED <<heap, done, log>>

\* the rest of the iteration: the line is lexed and parsed; parser errors are
\* printed and the loop continues; else the macros are defined and expanded,
\* the program is evaluated and the value printed; then the loop starts over
Evaluate ==
    /\ pc = "parse_program"
    /\ \E order \in HashOrders :
       \E r \in {parse_program(Lexed(result), 1, <<>>, <<>>)} :
          IF r.error_messages # <<>>
          THEN /\ log' = log \o <<"Woops! We ran into some monkey bussiness here!",
                                 " parser errors:">> \o r.error_messages
               /\ pc' = "prompt"
               /\ UNCHANGED heap
          ELSE \E d \in {define_macros(r.program.statements, heap.macro_env)} :
               \E x \in {expand_macro(d.statements, [heap |-> d.heap, log |-> <<>>],
                                      [roots |-> {1}, pos |-> "stmt", order |-> order])} :
                  IF x.halt # None
                  THEN /\ heap' = [heap EXCEPT !.macro_env = x.st.heap]
                       /\ log' = log
                       /\ pc' = "panicked"
                  ELSE \E e \in {eval_program(x.inplace.statements, 1, None,
                                              [heap |-> heap.env, log |-> <<>>], order)} :
                          /\ heap' = [env |-> e.st.heap, macro_env |-> x.st.heap]
                          /\ log' = IF Halts(e) THEN log ELSE Append(log, e.obj)
                          /\ pc' = IF Halts(e) THEN "panicked" ELSE "prompt"
    /\ UNCHANGED <<program, idx, result, done>>

\* a write to the output, the flush or read_line fails: the ? operator makes
\* start return the error
IoError ==
    /\ pc \in {"prompt", "read_line", "parse_program"}
    /\ pc' = "returned"
    /\ done' = TRUE
    /\ UNCHANGED <<program, idx, heap, result, log>>

ReplNext == WritePrompt \/ ReadLine \/ Evaluate \/ IoError

ReplSpec == ReplInit /\ [][ReplNext]_vars

\* a step of the loop: the step from one place of the loop to the next that
\* WritePrompt, ReadLine or Evaluate takes
LoopStep ==
    \/ pc = "prompt" /\ pc' = "read_line"
    \/ pc = "read_line" /\ pc' = "parse_program"
    \/ pc = "parse_program" /\ pc' \in {"prompt", "panicked"}

\* the loop of start goes on while no input or output operation fails
ReplFairSpec == ReplSpec /\ WF_pc(LoopStep)

\* ------------------------------------------------------------------ claims

Events(e) == {i \in DOMAIN log : log[i].ev = e}

\* C1: the value of a call to a user Function is never a ReturnValue:
\* apply_function yields the unwrapped value of the body's return
C1_CallNeverReturnValue ==
    \A i \in Events("applied") : log[i].obj.type # "ReturnValue"

\* C2: whenever a Function is applied, every frame on the outer chain of its
\* captured environment is still alive
C2_OuterChainAlive ==
    \A i \in Events("apply") : log[i].alive

\* the first return statement executed outside any function body
FirstReturn(i) ==
    /\ i \in Events("return")
    /\ log[i].pos # "fn"
    /\ \A j \in Events("return") : log[j].pos # "fn" => i <= j

\* that return decides the result and no statement starts after it
Decides(i) ==
    /\ \A j \in Events("stmt") : j < i
    /\ done => Same(result, log[i].obj.value)

\* C3 (as stated): the first return executed in a program, at any nesting depth
\* of if-blocks, determines the program's result and no statement after it is
\* evaluated
C3_FirstReturnDecides ==
    \A i \in DOMAIN log : FirstReturn(i) => Decides(i)

\* C3 (amended): the same, when every if-expression around the return is an
\* expression statement of its block or of the Program
C3_FirstStatementReturnDecides ==
    \A i \in DOMAIN log : FirstReturn(i) /\ log[i].pos = "stmt" => Decides(i)

\* a return two if-blocks deep, with statements after it in both blocks and
\* after the Program statement, has decided the result
C3_Witness ==
    /\ done
    /\ Same(result, StringObject("inner"))
    /\ Len(program) > idx
    /\ \E i \in DOMAIN log : FirstReturn(i) /\ log[i].pos = "stmt"

\* C4: in every form that evaluates sub-expressions, a sub-expression that
\* evaluates to an Error is the last one evaluated and is the form's result
C4_ErrorShortCircuits ==
    /\ \A i \in Events("form") :
          \A k \in DOMAIN log[i].subs :
              is_error(log[i].subs[k]) =>
                  k = Len(log[i].subs) /\ Same(log[i].obj, log[i].subs[k])
    /\ \A i \in Events("ident") : log[i].name # "after"

\* a call whose second argument of three failed
C4_Witness ==
    /\ done /\ is_error(result)
    /\ \E i \in Events("form") :
          /\ log[i].node.kind = "CallExpression"
          /\ Len(log[i].node.arguments) = 3
          /\ Len(log[i].subs) = 3
          /\ is_error(log[i].subs[3])
          /\ Same(result, log[i].subs[3])

\* what name is bound to in the root frame of heap h (None: unbound)
RootBinding(h, name) ==
    IF name \in DOMAIN h[1].store THEN h[1].store[name] ELSE None

\* C5: once a top-level statement evaluates to an Error, eval_program returns
\* that Error as it is and takes no further step; a top-level let whose value
\* is an Error leaves the binding of its name as it was
C5_ErrorStopsProgram ==
    [][ /\ ~(done /\ is_error(result))
        /\ (idx <= Len(program) /\ is_error(log'[Len(log')].obj)) =>
              /\ done' /\ idx' = idx
              /\ Same(result', log'[Len(log')].obj)
              /\ program[idx].kind = "LetStatement" =>
                    Same(RootBinding(heap', program[idx].name),
                         RootBinding(heap, program[idx].name)) ]_vars

\* let a = y; let a = <error>; has stopped with a still bound
C5_Witness ==
    /\ done /\ is_error(result)
    /\ idx = 2
    /\ program[idx].kind = "LetStatement"
    /\ program[idx].name \in DOMAIN heap[1].store

\* C6: a let whose value is not an Error binds the name to that value in the
\* current frame and evaluates to Null, whether or not the name was bound there
C6_LetBindsAndYieldsNull ==
    \A i \in Events("let") :
        Same(log[i].bound, log[i].value) /\ Same(log[i].obj, Null)

\* C7: Environment.set writes only to the frame it is called on, and after a
\* call returns every frame that existed before it has the bindings it had
C7_SetWritesOwnFrame ==
    /\ \A i \in Events("let") : log[i].only
    /\ \A i \in Events("applied") : log[i].kept

\* a call whose body shadowed a name of the root frame has returned, and the
\* program's result is the root frame's binding of that name
C7_Witness ==
    /\ done
    /\ \E i \in Events("let"), j \in Events("applied") :
          /\ i < j
          /\ log[i].env # 1 /\ log[j].env = log[i].env
          /\ ~log[i].rebound
          /\ log[i].name \in DOMAIN heap[1].store
          /\ ~Same(log[i].value, heap[1].store[log[i].name])
          /\ Same(result, heap[1].store[log[i].name])

\* what the identifier name denotes in a chain of stores
Lookup(chain, name) ==
    IF \E k \in DOMAIN chain : name \in DOMAIN chain[k]
    THEN chain[CHOOSE k \in DOMAIN chain :
                  /\ name \in DOMAIN chain[k]
                  /\ \A j \in 1..(k - 1) : name \notin DOMAIN chain[j]][name]
    ELSE IF name \in BuiltinNames THEN Builtin(name)
    ELSE Error("identifier not found: " \o name)

\* C8: an Identifier evaluates to its binding in the nearest frame of the
\* environment chain that binds it, else to the builtin of that name, else to
\* Error identifier not found
C8_IdentifierLookup ==
    \A i \in Events("ident") :
        Same(log[i].obj, Lookup(log[i].lexical, log[i].name))

InfixOperands(i) ==
    /\ i \in Events("form")
    /\ log[i].node.kind = "InfixExpression"
    /\ Len(log[i].subs) = 2
    /\ \A k \in 1..2 : log[i].subs[k].type \notin {"Error", "None"}

\* C9: for non-Error operands of an infix operator, operands of different types
\* give Error type mismatch; Boolean operands with an operator other than == and
\* !=, String operands with an operator other than +, and operands of one type
\* other than Integer, Boolean and String give Error unknown operator
C9_InfixTypeErrors ==
    \A i \in DOMAIN log : InfixOperands(i) =>
        LET L == log[i].subs[1].type
            R == log[i].subs[2].type
            op == log[i].node.operator
            types == L \o " " \o op \o " " \o R
        IN /\ L # R => Same(log[i].obj, Error("type mismatch: " \o types))
           /\ (L = R /\ L = "Boolean" /\ op \notin {"==", "!="}) =>
                 Same(log[i].obj, Error("unknown operator: Boolean " \o op \o " Boolean"))
           /\ (L = R /\ L = "String" /\ op # "+") =>
                 Same(log[i].obj, Error("unknown operator: String " \o op \o " String"))
           /\ (L = R /\ L \notin {"Integer", "Boolean", "String"}) =>
                 Same(log[i].obj, Error("unknown operator: " \o types))

\* 0 == true has evaluated to Error type mismatch
C9_Witness ==
    /\ done
    /\ Same(result, Error("type mismatch: Integer == Boolean"))
    /\ \E i \in DOMAIN log :
          InfixOperands(i) /\ log[i].subs[1].type = "Integer"
              /\ log[i].subs[2].type = "Boolean"

IfCondition(i) ==
    /\ i \in Events("form")
    /\ log[i].node.kind = "IfExpression"
    /\ log[i].subs[1].type \notin {"Error", "None"}

\* C10: an if evaluates its consequence for every non-Error condition other
\* than Boolean false, its alternative when the condition is false and there is
\* one, and yields Null when the condition is false and there is none
C10_IfBranches ==
    \A i \in DOMAIN log : IfCondition(i) =>
        LET c == log[i].subs[1]
            node == log[i].node
        IN IF ~Same(c, Boolean(FALSE))
           THEN /\ log[i].branch = "consequence"
                /\ AstEq(node.consequence, Then) => Same(log[i].obj, StringObject("then"))
           ELSE IF node.alternative # <<>>
           THEN /\ log[i].branch = "alternative"
                /\ AstEq(node.alternative[1], Else) =>
                      Same(log[i].obj, StringObject("else"))
           ELSE log[i].branch = "" /\ Same(log[i].obj, Null)

\* an if whose condition is Null has evaluated its consequence
C10_Witness ==
    /\ done
    /\ Same(result, StringObject("then"))
    /\ \E i \in DOMAIN log :
          /\ IfCondition(i)
          /\ log[i].subs[1].type = "Null"
          /\ log[i].node.alternative # <<>>

BangOperand(i) ==
    /\ i \in Events("form")
    /\ log[i].node.kind = "PrefixExpression"
    /\ log[i].node.operator = "!"
    /\ log[i].subs[1].type \notin {"Error", "None"}

\* C11: ! yields false for true, true for false, true for Null, and false for
\* every other object
C11_BangOperator ==
    \A i \in DOMAIN log : BangOperand(i) =>
        LET right == log[i].subs[1]
        IN Same(log[i].obj,
                Boolean(CASE right.type = "Boolean" -> ~right.value
                          [] right.type = "Null" -> TRUE
                          [] OTHER -> FALSE))

ArrayIndex(i) ==
    /\ i \in Events("form")
    /\ log[i].node.kind = "IndexExpression"
    /\ Len(log[i].subs) = 2
    /\ log[i].subs[1].type = "Array"
    /\ log[i].subs[2].type = "Integer"

\* C12: indexing an Array of length n with an Integer i yields element i when
\* 0 <= i < n and Null otherwise, and never aborts
C12_ArrayIndex ==
    \A i \in DOMAIN log : ArrayIndex(i) =>
        LET elements == log[i].subs[1].elements
            index == log[i].subs[2].value
        IN IF 0 <= index /\ index < Len(elements)
           THEN Same(log[i].obj, elements[index + 1])
           ELSE Same(log[i].obj, Null)

\* an array of two elements has been indexed at 2, at -1 or at 1
C12_Witness ==
    /\ done
    /\ \E i \in DOMAIN log :
          /\ ArrayIndex(i)
          /\ Len(log[i].subs[1].elements) = 2
          /\ \/ log[i].subs[2].value = 2 /\ Same(result, Null)
             \/ log[i].subs[2].value = 0 - 1 /\ Same(result, Null)
             \/ log[i].subs[2].value = 1 /\ Same(result, Integer(12))

\* the objects are the same hashable key: same type and same value
SameKeyObject(a, b) ==
    /\ Hashable(a) /\ Hashable(b)
    /\ a.type = b.type
    /\ a.value = b.value

HashLiteralDone(i) ==
    /\ i \in Events("form")
    /\ log[i].node.kind = "HashLiteral"
    /\ \A k \in DOMAIN log[i].subs : log[i].subs[k].type \notin {"Error", "None"}

HashIndex(i) ==
    /\ i \in Events("form")
    /\ log[i].node.kind = "IndexExpression"
    /\ Len(log[i].subs) = 2
    /\ log[i].subs[1].type = "Hash"
    /\ log[i].subs[2].type \notin {"Error", "None"}

\* the keys evaluated by a hash literal are the odd entries of subs
KeysOf(subs) == {k \in DOMAIN subs : k % 2 = 1}

\* C13: a hash-literal key or a hash index that is not an Integer, Boolean or
\* String yields Error unusable as hash key; a literal stores each value under
\* its own key, keys of different types apart; indexing a Hash with a hashable
\* key yields the value stored under it, or Null when there is none
C13_HashKeys ==
    /\ \A i \in DOMAIN log : HashLiteralDone(i) =>
          LET subs == log[i].subs
              bad == {k \in KeysOf(subs) : ~Hashable(subs[k])}
          IN IF bad # {}
             THEN \E k \in bad :
                     /\ \A j \in bad : k <= j
                     /\ Same(log[i].obj,
                             Error("unusable as hash key: " \o subs[k].type))
             ELSE /\ log[i].obj.type = "Hash"
                  /\ \A k \in KeysOf(subs) :
                        (\A j \in KeysOf(subs) : j > k => ~SameKeyObject(subs[j], subs[k]))
                        => \E p \in DOMAIN log[i].obj.pairs :
                              /\ SameKeyObject(log[i].obj.pairs[p].pair.key, subs[k])
                              /\ Same(log[i].obj.pairs[p].pair.value, subs[k + 1])
                  /\ \A p \in DOMAIN log[i].obj.pairs :
                        \E k \in KeysOf(subs) :
                            SameKeyObject(log[i].obj.pairs[p].pair.key, subs[k])
    /\ \A i \in DOMAIN log : HashIndex(i) =>
          LET pairs == log[i].subs[1].pairs
              index == log[i].subs[2]
              stored == {p \in DOMAIN pairs : SameKeyObject(pairs[p].pair.key, index)}
          IN IF ~Hashable(index)
             THEN Same(log[i].obj, Error("unusable as hash key: " \o index.type))
             ELSE IF stored = {} THEN Same(log[i].obj, Null)
             ELSE \A p \in stored : Same(log[i].obj, pairs[p].pair.value)

\* {1: "first", true: "second"}[true], in either order of the pairs, has
\* evaluated to the value stored under true
C13_Witness ==
    /\ done
    /\ \E i \in DOMAIN log :
          /\ HashIndex(i)
          /\ Len(log[i].subs[1].pairs) = 2
          /\ \E p \in 1..2 :
                /\ Same(log[i].subs[1].pairs[p].pair.key, Integer(1))
                /\ Same(log[i].subs[1].pairs[3 - p].pair.key, Boolean(TRUE))
                /\ Same(result, log[i].subs[1].pairs[3 - p].pair.value)
          /\ Same(log[i].subs[2], Boolean(TRUE))

\* the program as it was handed to define_macros
Parsed == Program(log[1].statements)

\* expand_macro has returned a node
Expanded == pc = "expanded" /\ "kind" \in DOMAIN result

\* the program is the definition of macro d followed by the call of d
FixtureOf(d) ==
    AstEq(Parsed, Program(<<LetStatement(d.name, d.literal), Stmt(d.call)>>))

Parts(node) ==
    CASE node.kind = "CallExpression" -> <<node.function>> \o node.arguments
      [] node.kind = "MacroLiteral" -> <<node.body>>
      [] OTHER -> Children(node)

RECURSIVE MacroCalls(_)
\* the calls left in a tree whose callee is an Identifier that the macro
\* environment binds to a Macro, in any child of any node
MacroCalls(node) ==
    LET parts == Parts(node)
        below == UNION {MacroCalls(parts[k]) : k \in DOMAIN parts}
    IN IF node.kind = "CallExpression"
          /\ is_macro_call(node, heap, {1}, 1).type = "Macro"
       THEN {string(node)} \cup below
       ELSE below

\* every macro of the macro environment is one of the fixtures, whose body
\* yields a Quote
FixtureMacros ==
    \A n \in DOMAIN heap[1].store :
        \E d \in MacroFixtures :
            d.name = n /\ AstEq(heap[1].store[n].body, d.literal.body)

\* C15: after define_macros and expand_macro no call of a macro is left in the
\* program, whichever place the call stood in: a statement, an operand, an
\* argument of another call, an array element, a hash pair, an if branch or a
\* function body.
C15_EveryMacroCallReplaced ==
    Expanded /\ FixtureMacros => MacroCalls(result) = {}

\* a let statement whose value is a macro literal
MacroLet(s) == s.kind = "LetStatement" /\ s.value.kind = "MacroLiteral"

\* C16: define_macros leaves in the program the statements that are not lets of
\* a macro literal, in their order, and nothing else; the macro environment
\* then binds the names of the removed lets and no other name, each to a Macro
\* with the parameters and body of the (last) removed let of that name.
C16_DefineMacros ==
    pc = "expand_macro" =>
        LET before == log[1].statements
            removed == {k \in DOMAIN before : MacroLet(before[k])}
            store == heap[1].store
        IN /\ AstEq(Program(program), Program(SelectSeq(before, LAMBDA s : ~MacroLet(s))))
           /\ DOMAIN store = {before[k].name : k \in removed}
           /\ \A k \in removed :
                 (\A j \in removed : before[j].name = before[k].name => j <= k) =>
                     LET m == store[before[k].name]
                     IN /\ m.type = "Macro"
                        /\ m.parameters = before[k].value.parameters
                        /\ AstEq(m.body, before[k].value.body)

\* let number = 1; let function = fn(x, y) { x + y };
\* let mymacro = macro(x, y) { x + y }; has been through define_macros
C16_Witness ==
    /\ pc = "expand_macro"
    /\ Len(log[1].statements) = 3
    /\ Len(program) = 2
    /\ \A k \in 1..2 : program[k].kind = "LetStatement"
    /\ program[1].name = "number" /\ program[2].name = "function"
    /\ DOMAIN heap[1].store = {"mymacro"}
    /\ heap[1].store["mymacro"].parameters = <<"x", "y">>
    /\ string(heap[1].store["mymacro"].body) = "(x + y)"

RECURSIVE Replaced(_)
\* the node with every child slot replaced by f applied to the replaced child,
\* and f applied to the result, for f = turn_one_into_two
Replaced(node) ==
    LET c == Children(node)
    IN turn_one_into_two(Rebuilt(node, [k \in DOMAIN c |-> Replaced(c[k])]))

\* C17: modify(node, f) returns the node with every child slot (statements,
\* expression, value, left, right, index, condition, consequence, alternative,
\* body, elements, keys and values) replaced by f applied to the modified child
\* and f applied last to the node itself; with f turning 1 into 2, [1, 1]
\* becomes [2, 2] and {1: 1} becomes {2: 2}.
C17_ModifyReplacesChildren ==
    pc = "modified" => AstEq(result, Replaced(log[1].node))

RECURSIVE UnquoteCalls(_)
\* the calls of unquote with one argument in a tree, in any child of any node
UnquoteCalls(node) ==
    LET parts == Parts(node)
        below == UNION {UnquoteCalls(parts[k]) : k \in DOMAIN parts}
    IN IF is_unquote_call(node) /\ Len(node.arguments) = 1
       THEN {string(node)} \cup below
       ELSE below

\* log entry j was made while the argument of an unquote call of the quote
\* that started after entry `from` was evaluated
InsideUnquote(j, from, i) ==
    \E u \in j..(i - 1) :
        log[u].ev = "unquote" /\ log[u].from >= from /\ log[u].from < j

\* C18: quote(e) yields a Quote and no Error; nothing is evaluated while it
\* runs except the arguments of unquote calls; the frames of the environment
\* are as they were; and where e holds no unquote call with one argument the
\* quoted node prints as e does.
C18_QuoteDoesNotEvaluate ==
    \A i \in Events("quote") :
        LET e == log[i]
        IN /\ e.obj.type = "Quote"
           /\ \A j \in (e.from + 1)..(i - 1) : InsideUnquote(j, e.from, i)
           /\ \A f \in DOMAIN e.before : SameFrame(e.before[f], e.after[f])
           /\ UnquoteCalls(e.node) = {} => string(e.obj.node) = string(e.node)

\* the AST form of an object that unquote can splice
AstForm(object, node) ==
    CASE object.type = "Integer" ->
            node.kind = "IntegerLiteral" /\ node.value = object.value
      [] object.type = "Boolean" -> node.kind = "Boolean" /\ node.value = object.value
      [] object.type = "Quote" -> AstEq(node, object.node)
      [] OTHER -> FALSE

\* C19: in the node of a Quote that quote(...) returned no call of unquote
\* with one argument is left, whether it stood as an infix or prefix operand,
\* as a statement of a block or as an argument of another call; each was
\* replaced by the AST form of the value of its argument: the literal n for
\* the Integer n, the literal for a Boolean, the quoted AST for a Quote.
C19_UnquoteReplaced ==
    /\ \A i \in Events("quote") : UnquoteCalls(log[i].obj.node) = {}
    /\ \A u \in Events("unquote") : AstForm(log[u].obj, log[u].node)

\* the precedence classes of the infix operators, lowest first
Rank(op) ==
    CASE op \in {"==", "!="} -> 1
      [] op \in {"<", ">"} -> 2
      [] op \in {"+", "-"} -> 3
      [] op \in {"*", "/"} -> 4

\* the expression an operand stands for
OperandNode(kind, name) ==
    CASE kind = "ident" -> Identifier(name)
      [] kind = "int" -> IntegerLiteral(1)
      [] kind = "bool" -> BooleanLit(TRUE)
      [] kind = "minus" -> PrefixExpression("-", Identifier(name))
      [] kind = "bang" -> PrefixExpression("!", Identifier(name))
      [] kind = "call" -> CallExpression(Identifier(name), <<Identifier("x")>>)
      [] kind = "group" -> InfixExpression(Identifier(name), "+", Identifier("x"))

\* C20: the parser groups a op1 b op2 c as ((a op1 b) op2 c) when op1 binds at
\* least as tightly as op2, and as (a op1 (b op2 c)) when op2 binds tighter,
\* for any two infix operators with == != below < > below + - below * /; and
\* a + b * c + d / e - f prints as (((a + (b * c)) + (d / e)) - f).
C20_PrecedenceGrouping ==
    pc = "parsed" =>
        /\ \A ops \in [1..2 -> InfixTokens], kinds \in KindsOf(3) :
              program = Chain(ops, kinds) =>
                 LET a == OperandNode(kinds[1], Names[1])
                     b == OperandNode(kinds[2], Names[2])
                     c == OperandNode(kinds[3], Names[3])
                     op1 == ops[1].literal
                     op2 == ops[2].literal
                     grouped ==
                        IF Rank(op1) >= Rank(op2)
                        THEN InfixExpression(InfixExpression(a, op1, b), op2, c)
                        ELSE InfixExpression(a, op1, InfixExpression(b, op2, c))
                 IN /\ log[1].error_messages = <<>>
                    /\ AstEq(result, Program(<<ExpressionStatement(grouped)>>))
        /\ program = LongChain => string(result) = "(((a + (b * c)) + (d / e)) - f)"

C20_Witness ==
    /\ pc = "parsed"
    /\ program = Chain(<<Token("Plus", "+"), Token("Asterisk", "*")>>,
                       [i \in 1..3 |-> "ident"])
    /\ string(result) = "(a + (b * c))"

\* parse applied to a printed program: the lexer's tokens of the string, parsed
Reparsed(s) == parse_program(Lexed(s), 1, <<>>, <<>>)

\* C21: for every well-formed program p, the string s that parse(p) prints
\* parses without errors, and the program parsed from s prints as s again.
C21_PrintedParsesBack ==
    (pc = "parsed" /\ program \in WellFormedInputs)
        => LET Same_string(s, again) ==
                   again.error_messages = <<>> /\ string(again.program) = s
           IN Same_string(string(result), Reparsed(string(result)))

\* C22: parse_program ends on every token stream, well-formed or malformed,
\* with a Program and a list of messages: from every position of the stream a
\* statement (an iteration of the top-level loop and of the block loop) and
\* an expression (an iteration of the argument loop) leave the parser at or
\* after the token they started on, from where the loop steps to the next
\* token; the parameter loop steps over two tokens; and at end-of-input the
\* block loop, the argument loop and the parameter loop stop where they are.
C22_LoopsConsumeAndStop ==
    /\ pc = "parsed" =>
          /\ result.kind = "Program"
          /\ \A i \in DOMAIN log[1].error_messages : log[1].error_messages[i] \in STRING
    /\ \A p \in 1..Len(program) :
          /\ parse_statement(program, p).p >= p
          /\ parse_expression(program, p, ExpressionPrecedence.Lowest).p >= p
          /\ parse_function_parameters(program, p).p > p
    /\ LET EOF == Len(program) + 1
       IN /\ parse_block_statement_loop(program, EOF, <<>>) = POk(BlockStatement(<<>>), EOF)
          /\ ~parse_call_arguments_loop(program, EOF, <<>>).ok
          /\ parse_call_arguments_loop(program, EOF, <<>>).p = EOF
          /\ ~parse_function_parameters_loop(program, EOF, <<>>).ok
          /\ parse_function_parameters_loop(program, EOF, <<>>).p = EOF
          /\ parse_program(program, EOF, <<>>, <<>>)
                = [program |-> Program(<<>>), error_messages |-> <<>>]

\* a function literal whose parameter list and block both run into the end of
\* the input, and a call whose argument list does, have been parsed
C22_Witness ==
    /\ pc = "parsed"
    /\ program \in {Lexed("fn(a,"), Lexed("if (a) { b"), Lexed("add(a,")}
    /\ log[1].error_messages # <<>>

RECURSIVE Sum(_)
Sum(numbers) == IF numbers = <<>> THEN 0 ELSE numbers[1] + Sum(Tail(numbers))

RECURSIVE StatementsIn(_)
\* the number of statements of a parsed node, those of its blocks included
StatementsIn(node) ==
    LET Each(nodes) == Sum([i \in DOMAIN nodes |-> StatementsIn(nodes[i])])
    IN CASE node.kind \in {"Program", "BlockStatement"} ->
                Len(node.statements) + Each(node.statements)
         [] node.kind = "LetStatement" -> StatementsIn(node.value)
         [] node.kind = "ReturnStatement" -> StatementsIn(node.return_value)
         [] node.kind = "ExpressionStatement" -> StatementsIn(node.expression)
         [] node.kind = "PrefixExpression" -> StatementsIn(node.right)
         [] node.kind = "InfixExpression" ->
                StatementsIn(node.left) + StatementsIn(node.right)
         [] node.kind = "IfExpression" ->
                StatementsIn(node.condition) + StatementsIn(node.consequence)
                    + Each(node.alternative)
         [] node.kind = "FunctionLiteral" -> StatementsIn(node.body)
         [] node.kind = "CallExpression" ->
                StatementsIn(node.function) + Each(node.arguments)
         [] OTHER -> 0

\* the number of statements written in a source whose statements each end
\* with a semicolon
StatementsWritten(tokens) ==
    Cardinality({i \in DOMAIN tokens : tokens[i].token_type = "Semicolon"})

\* C23: a failed expectation or prefix-handler lookup, at any nesting depth,
\* records a message, so a parse that ends with an empty error list dropped
\* no statement of the source: of a source whose statements each end with a
\* semicolon, the parsed Program holds as many statements as were written.
C23_EmptyErrorsNothingDropped ==
    (pc = "parsed" /\ program \in TerminatedInputs /\ log[1].error_messages = <<>>)
        => StatementsIn(result) = StatementsWritten(program)

\* the Array object of the literal ArrayOf(n)
ArrayObjectOf(n) == Array([k \in 1..n |-> Integer(10 + k)])

\* C24: push(arr, v) and rest(arr) return a new Array and leave the binding of
\* arr as it was: once let a = [..] is evaluated, a is bound to the elements
\* of the literal in every later state, b = push(a, v) is bound to these
\* elements followed by v, and c = rest(a) to these elements but the first.
C24_PushRestLeaveArray ==
    \A n \in 0..MaxLen, v \in Pushed, pushed_first \in BOOLEAN :
        program = PushRest(n, v, pushed_first) =>
            LET a == ArrayObjectOf(n)
                value == CASE v.kind = "IntegerLiteral" -> Integer(v.value)
                           [] v.kind = "StringLiteral" -> StringObject(v.value)
                           [] OTHER -> a
                b == IF pushed_first THEN 3 ELSE 4
                c == IF pushed_first THEN 4 ELSE 3
            IN /\ idx > 1 => Same(RootBinding(heap, "a"), a)
               /\ idx >= b => Same(RootBinding(heap, "b"),
                                   Array(Append(a.elements, value)))
               /\ idx >= c => Same(RootBinding(heap, "c"),
                                   Array(IF n = 0 THEN <<>> ELSE Tail(a.elements)))
               /\ done => Same(result, a)

\* let a = [11, 12]; let b = push(a, 3); let c = rest(a); a has run to its end
C24_Witness ==
    /\ program = PushRest(2, IntegerLiteral(3), TRUE)
    /\ done
    /\ Same(RootBinding(heap, "a"), Array(<<Integer(11), Integer(12)>>))
    /\ Same(RootBinding(heap, "b"), Array(<<Integer(11), Integer(12), Integer(3)>>))
    /\ Same(RootBinding(heap, "c"), Array(<<Integer(12)>>))

\* the characters of the input that are no whitespace, in a row
Unspaced(input) == concat(SelectSeq(input, LAMBDA c : ~is_whitespace(c)))

\* the characters next_token has no token for
Unknown(c) ==
    /\ ~is_whitespace(c) /\ ~is_letter(c) /\ c \notin AsciiDigit
    /\ c \notin DOMAIN SingleCharacterTokens \cup {"=", "!"}

\* C25: on every input, non-ASCII characters included, each call of
\* next_token returns a token without aborting; every unknown character
\* yields one Illegal token of that character; and the literals of the
\* tokens, identifiers and integers after an unknown character too, are
\* exactly the text of the source: identifiers are letters, integers are
\* digits, and in a row the literals spell the input without its whitespace.
C25_TokensSpellTheSource ==
    /\ pc # "panicked"
    /\ \A i \in DOMAIN log :
          /\ log[i].token_type = "Ident" =>
                \A k \in 1..Len(log[i].literal) : is_letter(Chars(log[i].literal)[k])
          /\ log[i].token_type = "Int" =>
                \A k \in 1..Len(log[i].literal) : Chars(log[i].literal)[k] \in AsciiDigit
    /\ pc = "eof" =>
          /\ concat([i \in DOMAIN log |-> log[i].literal]) = Unspaced(program)
          /\ LET illegal == SelectSeq(log, LAMBDA token : token.token_type = "Illegal")
             IN [i \in DOMAIN illegal |-> illegal[i].literal] = SelectSeq(program, Unknown)

\* C26: when read_line reads zero bytes, at end-of-input, the loop of the
\* REPL stops and start returns.
C26_EndOfInputReturns ==
    (pc = "parse_program" /\ idx = 0) ~> (pc = "returned")

\* C27: no frame binds a name to a ReturnValue or to an Error: every value a
\* let or a call has stored in a frame is an ordinary value.
C27_FramesBindValues ==
    \A f \in DOMAIN heap : \A name \in DOMAIN heap[f].store :
        heap[f].store[name].type \notin {"ReturnValue", "Error"}

\* C28: a user Function applied to fewer or to more arguments than it has
\* parameters yields an Error, and the evaluation does not abort: once the
\* call f(1, .., n) of a function of k # n parameters has been evaluated, the
\* value of the statement is an Error.
C28_ArityMismatchIsError ==
    ( /\ program \in ArityPrograms
      /\ Len(program[1].value.parameters) # Len(program[2].expression.arguments)
      /\ (idx > 2 \/ done) )
        => result.type = "Error"

\* C29: a / b with Integer operands yields an Error when b is 0, and the
\* evaluation does not abort; when b is not 0 it yields the Integer quotient
\* truncated toward zero: the q with a = q * b + r, r smaller than b in
\* magnitude and zero or of the sign of a.
C29_DivisionByZeroIsError ==
    \A a \in (0 - MaxOperand)..MaxOperand, b \in (0 - MaxOperand)..MaxOperand :
        (program = Quotient(a, b) /\ (idx > 1 \/ done)) =>
            IF b = 0 THEN result.type = "Error"
            ELSE /\ result.type = "Integer"
                 /\ LET r == a - result.value * b
                    IN /\ (IF r < 0 THEN -r ELSE r) < (IF b < 0 THEN -b ELSE b)
                       /\ r = 0 \/ (r < 0) = (a < 0)

\* the keys and values of a hash literal as string() lists them
PairStrings(node) ==
    [i \in DOMAIN node.pairs |-> <<string(node.pairs[i][1]), string(node.pairs[i][2])>>]

\* C30: a HashLiteral keeps its pairs in the order they were written and modify
\* preserves that order: the hash literal modify returns lists in each position
\* the key and the value that the literal it was given lists there, as they
\* were or with 1 turned into 2.
C30_ModifyKeepsPairOrder ==
    pc = "modified" /\ log[1].node.kind = "HashLiteral" =>
        LET given == log[1].node
            was == PairStrings(given)
            turned == PairStrings(Replaced(given))
            now == PairStrings(result)
        IN /\ Len(result.pairs) = Len(given.pairs)
           /\ \A i \in DOMAIN given.pairs :
                /\ now[i][1] \in {was[i][1], turned[i][1]}
                /\ now[i][2] \in {was[i][2], turned[i][2]}

====
